---- MODULE Spec2Model ----
(***************************************************************************)
(* State-machine model of the seedtone generative audio engine            *)
(* (src/lib/audio/generative/engine.ts, class GenerativeEngine) and of    *)
(* the SampleMixer bar/section counters, with the play action of the       *)
(* audio store (src/stores/audioStore.ts) on top.                          *)
(*                                                                         *)
(* Conventions:                                                            *)
(*  - Math.random() is a draw r in 0..999 standing for the value r/1000;   *)
(*    probabilities, densities and thresholds are kept in the same         *)
(*    per-mille unit (0.15 is 150).                                        *)
(*  - every handler is one action; the functions a handler calls are       *)
(*    operators on the engine record, composed in the order of the code.   *)
(*  - the fields fired / regen / notified of the engine record are the     *)
(*    effects of the handler that ran last (sampler triggers, whether      *)
(*    generateProgression ran, snapshots handed to listeners, the arms     *)
(*    applied); lastValence remembers the valence arm applied last.        *)
(***************************************************************************)
EXTENDS Integers, Sequences, FiniteSets, TLC

VARIABLES eng, callers, plays, hist, mixer, store, call, audioEngine, settings

vars == <<eng, callers, plays, hist, mixer, store, call, audioEngine, settings>>

\* ------------------------------------------------------------------ bounds
\* external callers of initialize()
MaxCallers == 2
\* concurrent play() invocations
MaxPlays == 1
\* cap on the SampleMixer section counter
MaxSections == 7
\* listeners that may subscribe
MaxListeners == 1
\* listeners that subscribe and unsubscribe side by side
MaxObservers == 2
\* subscriptions the AudioEngine wrapper may take on the generative engine
MaxSubscriptions == 2

CallerIds == 1..MaxCallers
PlayIds == 1..MaxPlays
ListenerIds == 1..MaxListeners
ObserverIds == 1..MaxObservers

\* --------------------------------------------------------- program constants
ProgressionLength == 8
StepCap == 7
InitialSectionLength == 32
InitialBpm == 156
SECTION_LENGTH_BARS == 16
lengths == <<16, 20, 24, 28, 32, 48>>
\* -Infinity dB, in thousandths of a dB
NegInfinity == 0 - 1000000000

\* chords.ts is not part of the available sources: the key lists, the scale
\* interval table, the interval weights and the progression generator follow
\* the specification (sections 3, 4.1, 4.2).
MAJOR_KEYS == <<"C", "F">>
MINOR_KEYS == <<"A", "D">>
FIVE_TO_FIVE == <<0, 2, 4, 5, 7, 9, 11, 12, 14, 16, 17, 19, 21, 23, 24>>
INTERVAL_WEIGHTS == <<30, 25, 15, 10, 8, 6, 4, 2>>
PROGRESSIONS ==
  << <<"I", "vi", "IV", "V", "I", "vi", "ii", "V">>,
     <<"ii", "V", "I", "vi", "ii", "V", "I", "IV">> >>

\* preferences/types.ts is not part of the available sources either; the
\* tempo ranges are repeated in LOFI_CONFIG.tempo.ranges.
TEMPO_RANGES ==
  [focus |-> [min |-> 60, max |-> 72],
   slow |-> [min |-> 70, max |-> 78],
   medium |-> [min |-> 78, max |-> 86],
   upbeat |-> [min |-> 86, max |-> 94],
   fast |-> [min |-> 94, max |-> 102]]
ENERGY_PARAMS ==
  [low |-> [density |-> 200, velocity |-> 500, instruments |-> 2],
   medium |-> [density |-> 350, velocity |-> 700, instruments |-> 3],
   high |-> [density |-> 500, velocity |-> 900, instruments |-> 4]]
DANCEABILITY_PARAMS ==
  [chill |-> [swing |-> 450, kickEmphasis |-> 500, hihatActivity |-> 300],
   groovy |-> [swing |-> 550, kickEmphasis |-> 650, hihatActivity |-> 500],
   bouncy |-> [swing |-> 650, kickEmphasis |-> 800, hihatActivity |-> 700]]
VALENCE_PARAMS ==
  [sad |-> [useMinor |-> TRUE],
   neutral |-> [useMinor |-> FALSE],
   happy |-> [useMinor |-> FALSE]]

NoParams == [tempo |-> "null", energy |-> "null", danceability |-> "null", valence |-> "null"]

\* ------------------------------------------------------------------ helpers
Min(a, b) == IF a < b THEN a ELSE b

\* arr[Math.floor(Math.random() * arr.length)]
Pick(arr, r) == arr[(r * Len(arr)) \div 1000 + 1]

\* weights.reduce((a, b) => a + b, 0) over the first n entries
RECURSIVE SumTo(_, _)
SumTo(w, n) == IF n = 0 THEN 0 ELSE w[n] + SumTo(w, n - 1)

\* Tone.Frequency(key + '5'): MIDI number of the tonic in octave 5
TonicMidi(key) ==
  CASE key = "C" -> 72
    [] key = "D" -> 74
    [] key = "F" -> 77
    [] key = "A" -> 81

\* Tone.Frequency(newKey + '5').harmonize(FIVE_TO_FIVE).map(toNote)
buildScale(key) == [i \in 1..Len(FIVE_TO_FIVE) |-> TonicMidi(key) + FIVE_TO_FIVE[i]]

\* ChordProgression.generate(8), by degree label
ChordProgressionGenerate(r) == Pick(PROGRESSIONS, r)

\* --------------------------------------------------------- GenerativeEngine
getState(e) ==
  [isPlaying |-> e.isPlaying, isLoaded |-> e.isLoaded, key |-> e.key,
   progression |-> e.progression, progressIndex |-> e.progressIndex,
   bpm |-> e.bpm, noiseType |-> e.noiseType, noiseVolume |-> e.noiseVolume]

\* listeners.forEach(l => l(state)): one record per call that reaches a
\* listener, with the engine's private content at the time of delivery
notifyListeners(e) ==
  IF e.listeners = {} THEN e
  ELSE [e EXCEPT !.notified =
          Append(@, [to |-> e.listeners, state |-> getState(e),
                     scale |-> e.scale, scalePos |-> e.scalePos,
                     progKey |-> e.progKey])]

\* the engine at the start of a handler: the effects of the previous one are gone
Begin(e) ==
  [e EXCEPT !.fired = {}, !.regen = FALSE, !.notified = <<>>, !.applied = NoParams]

\* the four samplers; each one's buffers are "none" (no sampler yet),
\* "loading", "loaded" (onload ran) or "failed" (a request failed)
SampleIds == {"piano", "kick", "snare", "hat"}

EngineInit ==
  [isPlaying |-> FALSE, isLoaded |-> FALSE, key |-> "C", progression |-> <<>>,
   progressIndex |-> 0, bpm |-> InitialBpm, noiseType |-> "pink", noiseVolume |-> 300,
   piano |-> FALSE, drums |-> FALSE, noise |-> FALSE, masterFilter |-> FALSE,
   seqs |-> "null",
   scale |-> <<>>, scalePos |-> 0, melodyDensity |-> 330, melodyOff |-> FALSE,
   kickOff |-> FALSE, snareOff |-> FALSE, hatOff |-> FALSE,
   currentParams |-> NoParams, currentVelocity |-> 700, preferMinor |-> FALSE,
   hihatActivity |-> 500, kickEmphasis |-> 650,
   barCount |-> 0, sectionLength |-> InitialSectionLength,
   listeners |-> {}, loadPromise |-> "null",
   transport |-> "stopped", transportBpm |-> 120, swing |-> 0, noiseOn |-> FALSE,
   loadRuns |-> 0, progKey |-> "", fired |-> {}, regen |-> FALSE, notified |-> <<>>,
   applied |-> NoParams, lastValence |-> "null",
   noiseReg |-> "null", noiseVolDb |-> 0, masterVolDb |-> 0,
   rampPending |-> FALSE, disposed |-> FALSE,
   samples |-> [s \in SampleIds |-> "none"]]

\* _initialize up to its await: audio graph (the noise source is created pink
\* behind a -32 dB volume node), transport registers, and the samplers that
\* loadPiano / loadDrums construct synchronously
initializeSync(e) ==
  [e EXCEPT !.masterFilter = TRUE, !.noise = TRUE,
            !.noiseReg = "pink", !.noiseVolDb = -32000,
            !.transportBpm = e.bpm, !.swing = 1000,
            !.piano = TRUE, !.drums = TRUE,
            !.samples = [s \in SampleIds |-> "loading"],
            !.loadPromise = "pending", !.loadRuns = @ + 1,
            !.disposed = FALSE]

\* initialize() without the memoised promise
initialize_NoMemo(e) == initializeSync(e)

\* initialize(): the memoised entry point
initialize(e) == IF e.loadPromise # "null" THEN e ELSE initializeSync(e)

\* _initialize after Promise.all resolved: setupSequences, isLoaded, notify
initializeDone(e) ==
  notifyListeners([e EXCEPT !.seqs = "stopped", !.isLoaded = TRUE, !.loadPromise = "resolved"])

\* Promise.all([loadPiano(), loadDrums()]) has resolved: loadPiano resolves
\* from onload and from onerror, loadDrums once checkLoaded ran three times,
\* and the drum samplers are given an onload only
loadResolved(e) ==
  /\ e.samples["piano"] \in {"loaded", "failed"}
  /\ \A s \in {"kick", "snare", "hat"} : e.samples[s] = "loaded"

\* a sampler's requests settle; the load promise may resolve with it
sampleSettled(e, s, outcome) ==
  LET e1 == [e EXCEPT !.samples[s] = outcome]
  IN IF e1.loadPromise = "pending" /\ loadResolved(e1) THEN initializeDone(e1) ELSE e1

\* every sampler still loading gets its buffers
loadAll(e) ==
  [e EXCEPT !.samples = [s \in SampleIds |-> IF @[s] = "loading" THEN "loaded" ELSE @[s]]]

\* generateProgression asking for 7 chords
generateProgression_SevenChords(e, g) ==
  LET newKey == IF e.preferMinor THEN Pick(MINOR_KEYS, g.key) ELSE Pick(MAJOR_KEYS, g.key)
      newScale == buildScale(newKey)
      newProgression == SubSeq(ChordProgressionGenerate(g.prog), 1, 7)
  IN notifyListeners(
       [e EXCEPT !.key = newKey, !.progression = newProgression, !.progressIndex = 0,
                 !.scale = newScale, !.scalePos = (g.pos * Len(newScale)) \div 1000,
                 !.progKey = newKey, !.regen = TRUE])

\* generateProgression drawing from the major keys whatever the preference
generateProgression_IgnoresValence(e, g) ==
  LET newKey == Pick(MAJOR_KEYS, g.key)
      newScale == buildScale(newKey)
      newProgression == ChordProgressionGenerate(g.prog)
  IN notifyListeners(
       [e EXCEPT !.key = newKey, !.progression = newProgression, !.progressIndex = 0,
                 !.scale = newScale, !.scalePos = (g.pos * Len(newScale)) \div 1000,
                 !.progKey = newKey, !.regen = TRUE])

\* generateProgression notifying between the key and the rest of the content
generateProgression_NotifiesEarly(e, g) ==
  LET newKey == IF e.preferMinor THEN Pick(MINOR_KEYS, g.key) ELSE Pick(MAJOR_KEYS, g.key)
      newScale == buildScale(newKey)
      newProgression == ChordProgressionGenerate(g.prog)
      e1 == notifyListeners([e EXCEPT !.key = newKey])
  IN [e1 EXCEPT !.progression = newProgression, !.progressIndex = 0,
                !.scale = newScale, !.scalePos = (g.pos * Len(newScale)) \div 1000,
                !.progKey = newKey, !.regen = TRUE]

generateProgression(e, g) ==
  LET newKey == IF e.preferMinor THEN Pick(MINOR_KEYS, g.key) ELSE Pick(MAJOR_KEYS, g.key)
      newScale == buildScale(newKey)
      newProgression == ChordProgressionGenerate(g.prog)
  IN notifyListeners(
       [e EXCEPT !.key = newKey, !.progression = newProgression, !.progressIndex = 0,
                 !.scale = newScale, !.scalePos = (g.pos * Len(newScale)) \div 1000,
                 !.progKey = newKey, !.regen = TRUE])

\* transition drawing the section length as any multiple of 4 from 16 to 44
transition_AnyMultipleOfFour(e, t) ==
  LET e1 == generateProgression(e, t)
  IN [e1 EXCEPT !.melodyDensity = 200 + t.dens \div 2,
                !.kickOff = t.kick < 130,
                !.snareOff = t.snare < 170,
                !.hatOff = t.hat < 220,
                !.melodyOff = t.mel < 250,
                !.rampPending = @ \/ e1.masterFilter,
                !.sectionLength = 4 * (4 + (t.len * 8) \div 1000)]

\* rampPending: a setTimeout of transition() has not run yet (the timers of
\* transitions less than 2 s apart are not told apart)
transition(e, t) ==
  LET e1 == generateProgression(e, t)
  IN [e1 EXCEPT !.melodyDensity = 200 + t.dens \div 2,
                !.kickOff = t.kick < 130,
                !.snareOff = t.snare < 170,
                !.hatOff = t.hat < 220,
                !.melodyOff = t.mel < 250,
                !.rampPending = @ \/ e1.masterFilter,
                !.sectionLength = Pick(lengths, t.len)]

\* the setTimeout callback of transition(): masterFilter?.frequency.linearRampTo
rampUp(e) ==
  [e EXCEPT !.rampPending = FALSE,
            !.fired = IF e.masterFilter THEN @ \cup {"rampUp"} ELSE @]

\* nextChord re-rolling on the tick that wraps the index (nextProgress = 0)
nextChord_RerollOnWrap(e, c, t) ==
  LET nextProgress == IF e.progressIndex = Len(e.progression) - 1 THEN 0
                      ELSE e.progressIndex + 1
      e1 == IF nextProgress = 0
            THEN [e EXCEPT !.kickOff = c.kick < 150,
                           !.snareOff = c.snare < 200,
                           !.hatOff = c.hat < 250,
                           !.melodyDensity = (c.dens * 3) \div 10 + 200,
                           !.melodyOff = c.mel < 250]
            ELSE e
      e2 == [e1 EXCEPT !.progressIndex = nextProgress, !.barCount = @ + 1]
      e3 == IF e2.barCount >= e2.sectionLength
            THEN transition([e2 EXCEPT !.barCount = 0], t)
            ELSE e2
  IN notifyListeners(e3)

\* nextChord wrapping one chord late (index length instead of length - 1)
nextChord_LateWrap(e, c, t) ==
  LET nextProgress == IF e.progressIndex = Len(e.progression) THEN 0
                      ELSE e.progressIndex + 1
      e1 == IF e.progressIndex = 0
            THEN [e EXCEPT !.kickOff = c.kick < 150,
                           !.snareOff = c.snare < 200,
                           !.hatOff = c.hat < 250,
                           !.melodyDensity = (c.dens * 3) \div 10 + 200,
                           !.melodyOff = c.mel < 250]
            ELSE e
      e2 == [e1 EXCEPT !.progressIndex = nextProgress, !.barCount = @ + 1]
      e3 == IF e2.barCount >= e2.sectionLength
            THEN transition([e2 EXCEPT !.barCount = 0], t)
            ELSE e2
  IN notifyListeners(e3)

\* nextChord comparing with > : the section runs one bar too long
nextChord_LateBoundary(e, c, t) ==
  LET nextProgress == IF e.progressIndex = Len(e.progression) - 1 THEN 0
                      ELSE e.progressIndex + 1
      e1 == IF e.progressIndex = 0
            THEN [e EXCEPT !.kickOff = c.kick < 150,
                           !.snareOff = c.snare < 200,
                           !.hatOff = c.hat < 250,
                           !.melodyDensity = (c.dens * 3) \div 10 + 200,
                           !.melodyOff = c.mel < 250]
            ELSE e
      e2 == [e1 EXCEPT !.progressIndex = nextProgress, !.barCount = @ + 1]
      e3 == IF e2.barCount > e2.sectionLength
            THEN transition([e2 EXCEPT !.barCount = 0], t)
            ELSE e2
  IN notifyListeners(e3)

nextChord(e, c, t) ==
  LET nextProgress == IF e.progressIndex = Len(e.progression) - 1 THEN 0
                      ELSE e.progressIndex + 1
      e1 == IF e.progressIndex = 0
            THEN [e EXCEPT !.kickOff = c.kick < 150,
                           !.snareOff = c.snare < 200,
                           !.hatOff = c.hat < 250,
                           !.melodyDensity = (c.dens * 3) \div 10 + 200,
                           !.melodyOff = c.mel < 250]
            ELSE e
      e2 == [e1 EXCEPT !.progressIndex = nextProgress, !.barCount = @ + 1]
      e3 == IF e2.barCount >= e2.sectionLength
            THEN transition([e2 EXCEPT !.barCount = 0], t)
            ELSE e2
  IN notifyListeners(e3)

\* playChord guarding the trigger only: the index still advances without a piano
playChord_AdvancesSilently(e, c, t) ==
  IF e.progressIndex >= Len(e.progression) THEN e
  ELSE nextChord(IF e.piano THEN [e EXCEPT !.fired = @ \cup {"chord"}] ELSE e, c, t)

playChord(e, c, t) ==
  IF e.progressIndex >= Len(e.progression) \/ ~e.piano THEN e
  ELSE nextChord([e EXCEPT !.fired = @ \cup {"chord"}], c, t)

\* rand > weights[d] on the normalised cumulative weights (d counted from 0).
\* The cumulative sums are floating-point: the last one may round below 1,
\* and then the largest draw exceeds it (lossy).
Exceeds(w, d, m) ==
  \/ m.walk * SumTo(w, Len(w)) > 1000 * SumTo(w, d + 1)
  \/ m.lossy /\ d = Len(w) - 1 /\ m.walk = 999

\* while (scaleDist < weights.length && rand > weights[scaleDist]) scaleDist++
RECURSIVE SampleDist(_, _, _)
SampleDist(w, d, m) ==
  IF d < Len(w) /\ Exceeds(w, d, m) THEN SampleDist(w, d + 1, m) ELSE d

\* playMelody: newScalePos, from the cursor p, the scale length L and the draws
melodyTarget(p, L, m) ==
  LET descendRange == Min(p, StepCap) + 1
      ascendRange == Min(L - p, StepCap)
      descend == IF descendRange > 1 /\ ascendRange > 1 THEN m.dir > 500
                 ELSE descendRange > 1
      range == IF descend THEN descendRange ELSE ascendRange
      weights == SubSeq(INTERVAL_WEIGHTS, 1, Min(range, Len(INTERVAL_WEIGHTS)))
      scaleDist == SampleDist(weights, 0, m)
  IN p + (IF descend THEN -scaleDist ELSE scaleDist)

\* playMelody gating the trigger only: the cursor walks on silent ticks too
playMelody_WalksSilently(e, m) ==
  IF ~e.piano THEN e
  ELSE
    LET descendRange == Min(e.scalePos, StepCap) + 1
        ascendRange == Min(Len(e.scale) - e.scalePos, StepCap)
        descend == IF descendRange > 1 /\ ascendRange > 1 THEN m.dir > 500
                   ELSE descendRange > 1
        range == IF descend THEN descendRange ELSE ascendRange
        weights == SubSeq(INTERVAL_WEIGHTS, 1, Min(range, Len(INTERVAL_WEIGHTS)))
        scaleDist == SampleDist(weights, 0, m)
        target == e.scalePos + (IF descend THEN -scaleDist ELSE scaleDist)
    IN IF target >= 0 /\ target < Len(e.scale)
       THEN [e EXCEPT !.scalePos = target,
                      !.fired = IF e.melodyOff \/ m.gate > e.melodyDensity
                                THEN @ ELSE @ \cup {"melody"}]
       ELSE e

\* playMelody with a cap of 8 scale steps
playMelody_CapEight(e, m) ==
  IF e.melodyOff \/ m.gate > e.melodyDensity \/ ~e.piano THEN e
  ELSE
    LET descendRange == Min(e.scalePos, 8) + 1
        ascendRange == Min(Len(e.scale) - e.scalePos, 8)
        descend == IF descendRange > 1 /\ ascendRange > 1 THEN m.dir > 500
                   ELSE descendRange > 1
        range == IF descend THEN descendRange ELSE ascendRange
        weights == SubSeq(INTERVAL_WEIGHTS, 1, Min(range, Len(INTERVAL_WEIGHTS)))
        scaleDist == SampleDist(weights, 0, m)
        target == e.scalePos + (IF descend THEN -scaleDist ELSE scaleDist)
    IN IF target >= 0 /\ target < Len(e.scale)
       THEN [e EXCEPT !.scalePos = target, !.fired = @ \cup {"melody"}]
       ELSE e

\* playMelody without the range check on the new position
playMelody_NoRangeCheck(e, m) ==
  IF e.melodyOff \/ m.gate > e.melodyDensity \/ ~e.piano THEN e
  ELSE
    LET descendRange == Min(e.scalePos, StepCap) + 1
        ascendRange == Min(Len(e.scale) - e.scalePos, StepCap)
        descend == IF descendRange > 1 /\ ascendRange > 1 THEN m.dir > 500
                   ELSE descendRange > 1
        range == IF descend THEN descendRange ELSE ascendRange
        weights == SubSeq(INTERVAL_WEIGHTS, 1, Min(range, Len(INTERVAL_WEIGHTS)))
        scaleDist == SampleDist(weights, 0, m)
        newScalePos == e.scalePos + (IF descend THEN -scaleDist ELSE scaleDist)
    IN [e EXCEPT !.scalePos = newScalePos, !.fired = @ \cup {"melody"}]

playMelody(e, m) ==
  IF e.melodyOff \/ m.gate > e.melodyDensity \/ ~e.piano THEN e
  ELSE
    LET descendRange == Min(e.scalePos, StepCap) + 1
        ascendRange == Min(Len(e.scale) - e.scalePos, StepCap)
        descend == IF descendRange > 1 /\ ascendRange > 1 THEN m.dir > 500
                   ELSE descendRange > 1
        range == IF descend THEN descendRange ELSE ascendRange
        weights == SubSeq(INTERVAL_WEIGHTS, 1, Min(range, Len(INTERVAL_WEIGHTS)))
        scaleDist == SampleDist(weights, 0, m)
        newScalePos == e.scalePos + (IF descend THEN -scaleDist ELSE scaleDist)
    IN IF newScalePos >= 0 /\ newScalePos < Len(e.scale)
       THEN [e EXCEPT !.scalePos = newScalePos, !.fired = @ \cup {"melody"}]
       ELSE e

\* the kick callback testing the mute flag on the template hits only
kickTick_GhostIgnoresMute(e, note, r) ==
  IF ~e.kickOff /\ note = "C4"
  THEN IF r < 600 + (e.kickEmphasis * 35) \div 100 /\ e.drums
       THEN [e EXCEPT !.fired = @ \cup {"kick"}] ELSE e
  ELSE IF note = "." /\ r < (e.kickEmphasis * 15) \div 100 /\ e.drums
       THEN [e EXCEPT !.fired = @ \cup {"kick"}] ELSE e

kickTick(e, note, r) ==
  IF ~e.kickOff /\ note = "C4"
  THEN IF r < 600 + (e.kickEmphasis * 35) \div 100 /\ e.drums
       THEN [e EXCEPT !.fired = @ \cup {"kick"}] ELSE e
  ELSE IF ~e.kickOff /\ note = "." /\ r < (e.kickEmphasis * 15) \div 100 /\ e.drums
       THEN [e EXCEPT !.fired = @ \cup {"kick"}] ELSE e

\* the snare callback staying silent while the kick is muted
snareTick_FollowsKick(e, note, r) ==
  IF ~e.snareOff /\ ~e.kickOff /\ note # "" /\ r < 800 /\ e.drums
  THEN [e EXCEPT !.fired = @ \cup {"snare"}] ELSE e

snareTick(e, note, r) ==
  IF ~e.snareOff /\ note # "" /\ r < 800 /\ e.drums
  THEN [e EXCEPT !.fired = @ \cup {"snare"}] ELSE e

hatTick(e, note, r) ==
  IF ~e.hatOff /\ note # "" /\ r < 500 + (e.hihatActivity * 40) \div 100 /\ e.drums
  THEN [e EXCEPT !.fired = @ \cup {"hat"}] ELSE e

\* play() regenerating the content on every start
playResume_Regenerates(e, g) ==
  notifyListeners(
    [generateProgression(e, g) EXCEPT
       !.transport = "started",
       !.seqs = IF @ = "null" THEN @ ELSE "started",
       !.noiseOn = (e.noiseType # "off" /\ e.noise),
       !.isPlaying = TRUE])

\* play() starting the transport and the sequences before awaiting Tone.start()
playRejected_StartsFirst(e) ==
  [e EXCEPT !.transport = "started", !.seqs = IF @ = "null" THEN @ ELSE "started"]

\* play() when Tone.start() rejects: nothing after the await runs
playRejected(e) == e

\* play() starting the transport without generating the missing progression
playResume_SkipsGeneration(e, g) ==
  notifyListeners(
    [e EXCEPT !.transport = "started",
              !.seqs = IF @ = "null" THEN @ ELSE "started",
              !.noiseOn = (e.noiseType # "off" /\ e.noise),
              !.isPlaying = TRUE])

\* play() after its awaits
playResume(e, g) ==
  LET e1 == IF Len(e.progression) = 0 THEN generateProgression(e, g) ELSE e
  IN notifyListeners(
       [e1 EXCEPT !.transport = "started",
                  !.seqs = IF @ = "null" THEN @ ELSE "started",
                  !.noiseOn = (e1.noiseType # "off" /\ e1.noise),
                  !.isPlaying = TRUE])

\* pause() resetting the position as stop() does
pause_ResetsPosition(e) ==
  notifyListeners(
    [e EXCEPT !.transport = IF @ = "started" THEN "paused" ELSE @,
              !.noiseOn = FALSE, !.isPlaying = FALSE,
              !.progressIndex = 0, !.barCount = 0])

\* Transport.pause() takes effect on a started transport only
pause(e) ==
  notifyListeners(
    [e EXCEPT !.transport = IF @ = "started" THEN "paused" ELSE @,
              !.noiseOn = FALSE, !.isPlaying = FALSE])

\* stop() dropping the progression along with the position
stop_ClearsProgression(e) ==
  notifyListeners(
    [e EXCEPT !.transport = "stopped",
              !.seqs = IF @ = "null" THEN @ ELSE "stopped",
              !.noiseOn = FALSE, !.isPlaying = FALSE,
              !.progression = <<>>, !.progressIndex = 0, !.barCount = 0])

stop(e) ==
  notifyListeners(
    [e EXCEPT !.transport = "stopped",
              !.seqs = IF @ = "null" THEN @ ELSE "stopped",
              !.noiseOn = FALSE, !.isPlaying = FALSE,
              !.progressIndex = 0, !.barCount = 0])

skip(e, t) == transition(e, t)

\* dispose(): stop(), then every node and sequence that exists is disposed
\* (?.dispose()); no field is set to null, and isLoaded and loadPromise stay
\* as they are
dispose(e) == [stop(e) EXCEPT !.disposed = @ \/ e.masterFilter]

\* applyTempo restarting the transport to make the new tempo take effect
applyTempo_RestartsTransport(e, tempoArm, r) ==
  LET range == TEMPO_RANGES[tempoArm]
      bpm == (2000 * range.min + 2 * r * (range.max - range.min) + 500) \div 1000
  IN [e EXCEPT !.bpm = bpm, !.transportBpm = bpm, !.applied.tempo = tempoArm,
               !.transport = "started"]

\* applyTempo storing the sampled tempo without doubling it
applyTempo_Undoubled(e, tempoArm, r) ==
  LET range == TEMPO_RANGES[tempoArm]
      bpm == (1000 * range.min + r * (range.max - range.min) + 500) \div 1000
  IN [e EXCEPT !.bpm = bpm, !.transportBpm = bpm, !.applied.tempo = tempoArm]

applyTempo(e, tempoArm, r) ==
  LET range == TEMPO_RANGES[tempoArm]
      bpm == (2000 * range.min + 2 * r * (range.max - range.min) + 500) \div 1000
  IN [e EXCEPT !.bpm = bpm, !.transportBpm = bpm, !.applied.tempo = tempoArm]

applyEnergy(e, energyArm) ==
  LET params == ENERGY_PARAMS[energyArm]
  IN [e EXCEPT !.melodyDensity = params.density,
               !.currentVelocity = params.velocity,
               !.kickOff = params.instruments < 3,
               !.snareOff = params.instruments < 4,
               !.applied.energy = energyArm]

\* applyDanceability easing the kick emphasis towards the arm's value
applyDanceability_Eases(e, danceabilityArm) ==
  LET params == DANCEABILITY_PARAMS[danceabilityArm]
  IN [e EXCEPT !.swing = params.swing,
               !.kickEmphasis = (@ + params.kickEmphasis) \div 2,
               !.hihatActivity = params.hihatActivity,
               !.applied.danceability = danceabilityArm]

applyDanceability(e, danceabilityArm) ==
  LET params == DANCEABILITY_PARAMS[danceabilityArm]
  IN [e EXCEPT !.swing = params.swing,
               !.kickEmphasis = params.kickEmphasis,
               !.hihatActivity = params.hihatActivity,
               !.applied.danceability = danceabilityArm]

applyValence(e, valenceArm) ==
  LET params == VALENCE_PARAMS[valenceArm]
  IN [e EXCEPT !.preferMinor = params.useMinor,
               !.applied.valence = valenceArm, !.lastValence = valenceArm]

\* applyGenerationParams leaving the tempo for the next play() when not playing
applyGenerationParams_DefersTempo(e, params, r) ==
  LET e1 == IF e.isPlaying THEN applyTempo(e, params.tempo, r)
            ELSE [e EXCEPT !.applied.tempo = params.tempo]
      e2 == applyEnergy(e1, params.energy)
      e3 == applyDanceability(e2, params.danceability)
      e4 == applyValence(e3, params.valence)
  IN notifyListeners([e4 EXCEPT !.currentParams = params])

applyGenerationParams(e, params, r) ==
  LET e1 == applyTempo(e, params.tempo, r)
      e2 == applyEnergy(e1, params.energy)
      e3 == applyDanceability(e2, params.danceability)
      e4 == applyValence(e3, params.valence)
  IN notifyListeners([e4 EXCEPT !.currentParams = params])

\* 20 * Math.log10(volume) in thousandths of a dB, volume in thousandths
Log10Db(volume) ==
  CASE volume = 1000 -> 0
    [] volume = 500 -> -6021
    [] volume = 250 -> -12041
    [] volume = 100 -> -20000

\* the master volume node exists once _initialize has built the graph; nobody
\* is notified
setVolume(e, volume) ==
  IF e.masterFilter
  THEN [e EXCEPT !.masterVolDb = IF volume = 0 THEN NegInfinity ELSE Log10Db(volume)]
  ELSE e

\* setNoiseType returns before notifying while the noise source does not exist
setNoiseType(e, type) ==
  LET e1 == [e EXCEPT !.noiseType = type]
  IN IF ~e1.noise THEN e1
     ELSE notifyListeners(
            IF type = "off"
            THEN [e1 EXCEPT !.noiseOn = IF e1.isPlaying THEN FALSE ELSE @]
            ELSE [e1 EXCEPT !.noiseReg = type,
                            !.noiseOn = IF e1.isPlaying THEN TRUE ELSE @])

\* volume in thousandths; the volume node (created with the noise source) is
\* set in thousandths of a dB from the unclamped argument
setNoiseVolume(e, volume) ==
  LET clamped == IF volume < 0 THEN 0 ELSE Min(1000, volume)
      e1 == [e EXCEPT !.noiseVolume = clamped]
      e2 == IF ~e1.noise THEN e1
            ELSE [e1 EXCEPT !.noiseVolDb =
                    IF volume = 0 THEN NegInfinity ELSE -60000 + volume * 40]
  IN notifyListeners(e2)

subscribe(e, l) == [e EXCEPT !.listeners = @ \cup {l}]

\* the returned function deleting nothing (the set holds a wrapper, not l)
unsubscribe_DeletesNothing(e, l) == e

unsubscribe(e, l) == [e EXCEPT !.listeners = @ \ {l}]

\* -------------------------------------------------------------- SampleMixer
\* bar / section bookkeeping of SampleMixer (layer selection and crossfades
\* depend on the sample manifest and do not touch the counters)
MixerInit ==
  [pack |-> FALSE, isPlaying |-> FALSE, barCallback |-> FALSE,
   barCount |-> 0, sectionCount |-> 0]

mixerLoadPack(m) == [m EXCEPT !.pack = TRUE]

\* start(): throws without a pack, returns when already playing
mixerStart(m) ==
  IF ~m.pack \/ m.isPlaying THEN m
  ELSE [m EXCEPT !.barCallback = TRUE, !.isPlaying = TRUE]

mixerStop(m) ==
  IF ~m.isPlaying THEN m
  ELSE [m EXCEPT !.barCallback = FALSE, !.barCount = 0,
                 !.sectionCount = 0, !.isPlaying = FALSE]

\* onBar comparing with > : the section change comes one bar late
mixerOnBar_LateSection(m) ==
  LET m1 == [m EXCEPT !.barCount = @ + 1]
  IN IF m1.barCount > SECTION_LENGTH_BARS
     THEN [m1 EXCEPT !.barCount = 0, !.sectionCount = @ + 1]
     ELSE m1

mixerOnBar(m) ==
  LET m1 == [m EXCEPT !.barCount = @ + 1]
  IN IF m1.barCount >= SECTION_LENGTH_BARS
     THEN [m1 EXCEPT !.barCount = 0, !.sectionCount = @ + 1]
     ELSE m1

\* --------------------------------------------------------------- audio store
\* isLoading and error of useAudioStore, and how each play() call has settled
StoreInit ==
  [isLoading |-> FALSE, error |-> "null", calls |-> [p \in PlayIds |-> "idle"]]

\* play: set({ isLoading: true, error: null }) before the await
storePlayBegin(s, p) ==
  [s EXCEPT !.isLoading = TRUE, !.error = "null", !.calls[p] = "awaiting"]

\* play: the await returned; finally
storePlayDone(s, p) == [s EXCEPT !.isLoading = FALSE, !.calls[p] = "resolved"]

\* play: catch (set the message, rethrow), then finally
storePlayFailed(s, p, message) ==
  LET caught == [s EXCEPT !.error = message, !.calls[p] = "rejected"]
  IN [caught EXCEPT !.isLoading = FALSE]

\* --------------------------------------------------------------- AudioEngine
\* The wrapper around the generative engine (src/lib/audio/engine.ts): its
\* state record, the number of subscriptions it has taken on the generative
\* engine (subs), where each of its initialize() calls stands (inits), and
\* what useAudioStore copied at the wrapper's last notifyListeners (seen).
AudioEngineInit ==
  [isInitialized |-> FALSE, isPlaying |-> FALSE, bpm |-> 78, currentKey |-> "C",
   progressIndex |-> 0, progression |-> <<>>,
   samplesLoaded |-> FALSE, samplesLoading |-> FALSE,
   subs |-> 0, inits |-> [c \in CallerIds |-> "idle"],
   seen |-> [isInitialized |-> FALSE, isPlaying |-> FALSE, bpm |-> 78]]

\* every subscription is a new closure: the k-th one is listener 100 + k of
\* generativeEngine.listeners
WrapperListener(k) == 100 + k

WrapperListeners == {WrapperListener(k) : k \in 1..MaxSubscriptions}

\* AudioEngine.notifyListeners: the store's subscription copies the state
audioNotify(a) ==
  [a EXCEPT !.seen = [isInitialized |-> a.isInitialized, isPlaying |-> a.isPlaying,
                      bpm |-> a.bpm]]

\* genState.progression.map(c => c.degree): a chord of the model is its
\* degree label
degrees(progression) == [i \in 1..Len(progression) |-> progression[i]]

\* the subscription closure forgetting the progression index
audioHeard_DropsIndex(a, genState) ==
  audioNotify(
    [a EXCEPT !.isPlaying = genState.isPlaying,
              !.currentKey = genState.key,
              !.bpm = 78,
              !.progression = degrees(genState.progression),
              !.samplesLoaded = genState.isLoaded,
              !.samplesLoading = ~genState.isLoaded])

\* the closure AudioEngine.initialize subscribes with
audioHeard(a, genState) ==
  audioNotify(
    [a EXCEPT !.isPlaying = genState.isPlaying,
              !.currentKey = genState.key,
              !.bpm = 78,
              !.progressIndex = genState.progressIndex,
              !.progression = degrees(genState.progression),
              !.samplesLoaded = genState.isLoaded,
              !.samplesLoading = ~genState.isLoaded])

\* the wrapper after a handler of the generative engine: each notification of
\* the handler ran every subscribed closure, the last one last
Deliver(a, e) ==
  IF e.notified # <<>> /\ e.notified[Len(e.notified)].to \cap WrapperListeners # {}
  THEN audioHeard(a, e.notified[Len(e.notified)].state)
  ELSE a

\* AudioEngine.initialize up to its await
audioInitializeBegin(a, c) ==
  audioNotify([a EXCEPT !.samplesLoading = TRUE, !.inits[c] = "awaiting"])

\* AudioEngine.initialize after its await: subscribe, then the flags
audioInitializeEnd(a, c) ==
  audioNotify([a EXCEPT !.subs = @ + 1, !.isInitialized = TRUE,
                        !.samplesLoaded = TRUE, !.samplesLoading = FALSE,
                        !.inits[c] = "idle"])

\* AudioEngine.dispose after generativeEngine.dispose(): nobody is notified
audioDispose(a) == [a EXCEPT !.isInitialized = FALSE]

\* ------------------------------------------------------------ settings store
\* the arm names and their configured ranges (LOFI_CONFIG.tempo.ranges)
TempoArmNames == <<"focus", "60-70", "70-80", "80-90", "90-100">>

TempoArmRange(arm) ==
  CASE arm = "focus" -> [min |-> 60, max |-> 72]
    [] arm = "60-70" -> [min |-> 70, max |-> 78]
    [] arm = "70-80" -> [min |-> 78, max |-> 86]
    [] arm = "80-90" -> [min |-> 86, max |-> 94]
    [] arm = "90-100" -> [min |-> 94, max |-> 102]

\* arms.push(name) when the condition holds
Push(cond, name) == IF cond THEN <<name>> ELSE <<>>

\* getAllowedTempoArms comparing strictly
getAllowedTempoArms_Strict(bpmMin, bpmMax) ==
  LET arms == Push(bpmMin < 72 /\ bpmMax > 60, "focus")
                \o Push(bpmMin < 78 /\ bpmMax > 70, "60-70")
                \o Push(bpmMin < 86 /\ bpmMax > 78, "70-80")
                \o Push(bpmMin < 94 /\ bpmMax > 86, "80-90")
                \o Push(bpmMin < 102 /\ bpmMax > 94, "90-100")
  IN IF Len(arms) = 0
     THEN IF bpmMax < 72 THEN <<"focus">>
          ELSE IF bpmMin > 94 THEN <<"90-100">>
          ELSE <<"70-80">>
     ELSE arms

getAllowedTempoArms(bpmMin, bpmMax) ==
  LET arms == Push(bpmMin <= 72 /\ bpmMax >= 60, "focus")
                \o Push(bpmMin <= 78 /\ bpmMax >= 70, "60-70")
                \o Push(bpmMin <= 86 /\ bpmMax >= 78, "70-80")
                \o Push(bpmMin <= 94 /\ bpmMax >= 86, "80-90")
                \o Push(bpmMin <= 102 /\ bpmMax >= 94, "90-100")
  IN IF Len(arms) = 0
     THEN IF bpmMax < 72 THEN <<"focus">>
          ELSE IF bpmMin > 94 THEN <<"90-100">>
          ELSE <<"70-80">>
     ELSE arms

Max(a, b) == IF a > b THEN a ELSE b

\* setBpmRange: both ends clamped to 60..100, the upper one not below the lower
setBpmRange(s, min, max) ==
  LET clampedMin == Max(60, Min(100, min))
      clampedMax == Max(clampedMin, Min(100, max))
  IN [s EXCEPT !.bpmMin = clampedMin, !.bpmMax = clampedMax]

\* useSettingsStore (the fields used here), and the last call of
\* getAllowedTempoArms: its arguments (asked) and its result (arms)
SettingsInit ==
  [bpmMin |-> 60, bpmMax |-> 72, noiseType |-> "pink",
   asked |-> [bpmMin |-> 60, bpmMax |-> 72], arms |-> getAllowedTempoArms(60, 72)]

\* ------------------------------------------------------------------ history
\* What an observer of a run remembers: the content at the last pause()/stop()
\* (until a tick or a skip follows), a marked progression index with the
\* number of chord ticks played since the mark, and which listeners hold a
\* subscription (subs) or have called the unsubscribe function they were
\* given (gone).
Content(e) ==
  [key |-> e.key, progression |-> e.progression, scale |-> e.scale,
   scalePos |-> e.scalePos, progressIndex |-> e.progressIndex,
   barCount |-> e.barCount, sectionLength |-> e.sectionLength]

NoSnap ==
  [key |-> "", progression |-> <<>>, scale |-> <<>>, scalePos |-> 0,
   progressIndex |-> 0, barCount |-> 0, sectionLength |-> 0]

HistInit ==
  [halt |-> "none", resumed |-> FALSE, snap |-> NoSnap, mark |-> -1, ticks |-> 0,
   subs |-> {}, gone |-> {}]

Forget(h) == [h EXCEPT !.halt = "none", !.resumed = FALSE, !.snap = NoSnap]

Unmark(h) == [h EXCEPT !.mark = -1, !.ticks = 0]

\* ----------------------------------------------------------- watched callbacks
\* What an observer of a sequence callback recorded of it: which callback ran,
\* the fields it read as they were before it ran, the template slot it was
\* handed and the values Math.random() returned to it. Empty after any step
\* that is not a watched callback.
Pre(e) ==
  [progressIndex |-> e.progressIndex, barCount |-> e.barCount,
   sectionLength |-> e.sectionLength, scalePos |-> e.scalePos,
   progLen |-> Len(e.progression), scaleLen |-> Len(e.scale), piano |-> e.piano,
   kickOff |-> e.kickOff, snareOff |-> e.snareOff, hatOff |-> e.hatOff,
   melodyOff |-> e.melodyOff, melodyDensity |-> e.melodyDensity]

ZeroM == [gate |-> 0, dir |-> 0, walk |-> 0, lossy |-> FALSE]

NoCall ==
  [op |-> "none", pre |-> Pre(EngineInit),
   c |-> [kick |-> 0, snare |-> 0, hat |-> 0, dens |-> 0, mel |-> 0],
   m |-> ZeroM, note |-> "", r |-> 0]

\* ------------------------------------------------------------------ draws
\* A draw record names the values Math.random() may return at each call site.
ZeroC == [kick |-> 0, snare |-> 0, hat |-> 0, dens |-> 0, mel |-> 0]
ZeroG == [key |-> 0, prog |-> 0, pos |-> 0]
ZeroT ==
  [key |-> 0, prog |-> 0, pos |-> 0, dens |-> 0, kick |-> 0, snare |-> 0,
   hat |-> 0, mel |-> 0, len |-> 0]

CycleDraws(D) == [kick : D.kick, snare : D.snare, hat : D.hat, dens : D.dens, mel : D.mel]
GenDraws(D) == [key : D.key, prog : D.prog, pos : D.pos]
TransDraws(D) ==
  [key : D.key, prog : D.prog, pos : D.pos, dens : D.dens, kick : D.kick,
   snare : D.snare, hat : D.hat, mel : D.mel, len : D.len]
MelodyDraws(D) ==
  {[gate |-> g, dir |-> d, walk |-> w.r, lossy |-> w.lossy] :
     g \in D.gate, d \in D.dir, w \in D.walk}

\* one draw per entry of lengths
AllLengths == {0, 170, 340, 500, 670, 999}
\* inverse-CDF draws: one per step distance 0..7 of the full weight table, and
\* the largest draw once more with a total that rounded below 1
WalkDraws ==
  {[r |-> x, lossy |-> FALSE] : x \in {0, 400, 600, 750, 850, 900, 950, 999}}
    \cup {[r |-> 999, lossy |-> TRUE]}

\* ------------------------------------------------------------------ actions
Init ==
  /\ eng = EngineInit
  /\ callers = [c \in CallerIds |-> "idle"]
  /\ plays = [p \in PlayIds |-> "idle"]
  /\ hist = HistInit
  /\ mixer = MixerInit
  /\ store = StoreInit
  /\ call = NoCall
  /\ audioEngine = AudioEngineInit
  /\ settings = SettingsInit

Ticking == eng.transport = "started" /\ eng.seqs = "started"

\* an external caller awaits initialize()
Initialize(c) ==
  /\ callers[c] = "idle"
  /\ eng' = initialize(Begin(eng))
  /\ callers' = [callers EXCEPT ![c] =
                   IF eng'.loadPromise = "resolved" THEN "resolved" ELSE "waiting"]
  /\ call' = NoCall
  /\ audioEngine' = Deliver(audioEngine, eng')
  /\ UNCHANGED <<plays, hist, mixer, store, settings>>

\* play() up to its first await
PlayCall(p) ==
  /\ plays[p] = "idle"
  /\ IF ~eng.isLoaded
     THEN /\ eng' = initialize(Begin(eng))
          /\ plays' = [plays EXCEPT ![p] = "awaitInit"]
     ELSE /\ eng' = Begin(eng)
          /\ plays' = [plays EXCEPT ![p] = "awaitUnlock"]
  /\ call' = NoCall
  /\ audioEngine' = Deliver(audioEngine, eng')
  /\ UNCHANGED <<callers, hist, mixer, store, settings>>

\* the samples have loaded: _initialize finishes and every awaiter continues
LoadComplete ==
  /\ eng.loadPromise = "pending"
  /\ loadResolved(loadAll(eng))
  /\ eng' = initializeDone(loadAll(Begin(eng)))
  /\ callers' = [c \in CallerIds |-> IF callers[c] = "waiting" THEN "resolved" ELSE callers[c]]
  /\ plays' = [p \in PlayIds |-> IF plays[p] = "awaitInit" THEN "awaitUnlock" ELSE plays[p]]
  /\ call' = NoCall
  /\ audioEngine' = Deliver(audioEngine, eng')
  /\ UNCHANGED <<hist, mixer, store, settings>>

\* one sampler's requests settle: all its buffers arrived, or one failed
SampleSettled(s, outcome) ==
  /\ eng.samples[s] = "loading"
  /\ eng' = sampleSettled(Begin(eng), s, outcome)
  /\ callers' = [c \in CallerIds |->
                   IF callers[c] = "waiting" /\ eng'.isLoaded THEN "resolved" ELSE callers[c]]
  /\ plays' = [p \in PlayIds |->
                 IF plays[p] = "awaitInit" /\ eng'.isLoaded THEN "awaitUnlock" ELSE plays[p]]
  /\ call' = NoCall
  /\ audioEngine' = Deliver(audioEngine, eng')
  /\ UNCHANGED <<hist, mixer, store, settings>>

\* Tone.start() resolved: the rest of play()
PlayResume(p, D) ==
  /\ plays[p] = "awaitUnlock"
  /\ \E g \in (IF Len(eng.progression) = 0 THEN GenDraws(D) ELSE {ZeroG}) :
       eng' = playResume(Begin(eng), g)
  /\ plays' = [plays EXCEPT ![p] = "idle"]
  /\ hist' = IF hist.halt # "none" THEN [hist EXCEPT !.resumed = TRUE] ELSE hist
  /\ call' = NoCall
  /\ audioEngine' = Deliver(audioEngine, eng')
  /\ UNCHANGED <<callers, mixer, store, settings>>

\* useAudioStore.play() up to its await; AudioEngine.play() hands the call on
\* to the generative engine
StorePlay(p) ==
  /\ plays[p] = "idle"
  /\ store.calls[p] # "awaiting"
  /\ store' = storePlayBegin(store, p)
  /\ IF ~eng.isLoaded
     THEN /\ eng' = initialize(Begin(eng))
          /\ plays' = [plays EXCEPT ![p] = "awaitInit"]
     ELSE /\ eng' = Begin(eng)
          /\ plays' = [plays EXCEPT ![p] = "awaitUnlock"]
  /\ call' = NoCall
  /\ audioEngine' = Deliver(audioEngine, eng')
  /\ UNCHANGED <<callers, hist, mixer, settings>>

\* Tone.start() resolved for a call made through the store
StorePlayResolve(p, D) ==
  /\ plays[p] = "awaitUnlock"
  /\ store.calls[p] = "awaiting"
  /\ \E g \in (IF Len(eng.progression) = 0 THEN GenDraws(D) ELSE {ZeroG}) :
       eng' = playResume(Begin(eng), g)
  /\ plays' = [plays EXCEPT ![p] = "idle"]
  /\ store' = storePlayDone(store, p)
  /\ hist' = IF hist.halt # "none" THEN [hist EXCEPT !.resumed = TRUE] ELSE hist
  /\ call' = NoCall
  /\ audioEngine' = Deliver(audioEngine, eng')
  /\ UNCHANGED <<callers, mixer, settings>>

\* Tone.start() rejected (no user gesture yet): the rejection passes through
\* AudioEngine.play() to the store's catch
StorePlayReject(p) ==
  /\ plays[p] = "awaitUnlock"
  /\ store.calls[p] = "awaiting"
  /\ eng' = playRejected(Begin(eng))
  /\ plays' = [plays EXCEPT ![p] = "idle"]
  /\ store' = storePlayFailed(store, p, "Failed to start playback")
  /\ call' = NoCall
  /\ audioEngine' = Deliver(audioEngine, eng')
  /\ UNCHANGED <<callers, hist, mixer, settings>>

Pause ==
  /\ eng' = pause(Begin(eng))
  /\ hist' = [hist EXCEPT !.halt = "pause", !.resumed = FALSE, !.snap = Content(eng)]
  /\ call' = NoCall
  /\ audioEngine' = Deliver(audioEngine, eng')
  /\ UNCHANGED <<callers, plays, mixer, store, settings>>

Stop ==
  /\ eng' = stop(Begin(eng))
  /\ hist' = Unmark([hist EXCEPT !.halt = "stop", !.resumed = FALSE, !.snap = Content(eng)])
  /\ call' = NoCall
  /\ audioEngine' = Deliver(audioEngine, eng')
  /\ UNCHANGED <<callers, plays, mixer, store, settings>>

Skip(D) ==
  /\ \E t \in TransDraws(D) : eng' = skip(Begin(eng), t)
  /\ hist' = Unmark(Forget(hist))
  /\ call' = NoCall
  /\ audioEngine' = Deliver(audioEngine, eng')
  /\ UNCHANGED <<callers, plays, mixer, store, settings>>

Dispose ==
  /\ eng' = dispose(Begin(eng))
  /\ hist' = Unmark([hist EXCEPT !.halt = "stop", !.resumed = FALSE, !.snap = Content(eng)])
  /\ call' = NoCall
  /\ audioEngine' = Deliver(audioEngine, eng')
  /\ UNCHANGED <<callers, plays, mixer, store, settings>>

\* the one-shot timer of a transition expires
RampTimer ==
  /\ eng.rampPending
  /\ eng' = rampUp(Begin(eng))
  /\ call' = NoCall
  /\ audioEngine' = Deliver(audioEngine, eng')
  /\ UNCHANGED <<callers, plays, hist, mixer, store, settings>>

\* chordSeq callback; Math.random() is called on the paths that use it only
ChordTick(D) ==
  /\ Ticking
  /\ \E c \in (IF eng.progressIndex = 0 THEN CycleDraws(D) ELSE {ZeroC}) :
     \E t \in (IF eng.barCount + 1 >= eng.sectionLength THEN TransDraws(D) ELSE {ZeroT}) :
       eng' = playChord(Begin(eng), c, t)
  /\ hist' = LET h == Forget(hist)
             IN IF h.mark = -1 \/ "chord" \notin eng'.fired THEN h
                ELSE IF eng'.regen \/ h.ticks >= ProgressionLength THEN Unmark(h)
                ELSE [h EXCEPT !.ticks = @ + 1]
  /\ call' = NoCall
  /\ audioEngine' = Deliver(audioEngine, eng')
  /\ UNCHANGED <<callers, plays, mixer, store, settings>>

MelodyTick(D) ==
  /\ Ticking
  /\ \E m \in MelodyDraws(D) : eng' = playMelody(Begin(eng), m)
  /\ hist' = Forget(hist)
  /\ call' = NoCall
  /\ audioEngine' = Deliver(audioEngine, eng')
  /\ UNCHANGED <<callers, plays, mixer, store, settings>>

KickTick(D) ==
  /\ Ticking
  /\ \E note \in {"C4", "", "."}, r \in D.hit : eng' = kickTick(Begin(eng), note, r)
  /\ hist' = Forget(hist)
  /\ call' = NoCall
  /\ audioEngine' = Deliver(audioEngine, eng')
  /\ UNCHANGED <<callers, plays, mixer, store, settings>>

SnareTick(D) ==
  /\ Ticking
  /\ \E note \in {"", "C4"}, r \in D.hit : eng' = snareTick(Begin(eng), note, r)
  /\ hist' = Forget(hist)
  /\ call' = NoCall
  /\ audioEngine' = Deliver(audioEngine, eng')
  /\ UNCHANGED <<callers, plays, mixer, store, settings>>

HatTick(D) ==
  /\ Ticking
  /\ \E r \in D.hit : eng' = hatTick(Begin(eng), "C4", r)
  /\ hist' = Forget(hist)
  /\ call' = NoCall
  /\ audioEngine' = Deliver(audioEngine, eng')
  /\ UNCHANGED <<callers, plays, mixer, store, settings>>

\* the chord callback as an observer watches it; the sequence invokes it while
\* started, a specification may invoke it in any state
ChordCall(D) ==
  /\ \E c \in (IF eng.progressIndex = 0 THEN CycleDraws(D) ELSE {ZeroC}) :
     \E t \in (IF eng.barCount + 1 >= eng.sectionLength THEN TransDraws(D) ELSE {ZeroT}) :
       /\ eng' = playChord(Begin(eng), c, t)
       /\ call' = [NoCall EXCEPT !.op = "chord", !.pre = Pre(eng), !.c = c]
  /\ hist' = LET h == Forget(hist)
             IN IF h.mark = -1 \/ "chord" \notin eng'.fired THEN h
                ELSE IF eng'.regen \/ h.ticks >= ProgressionLength THEN Unmark(h)
                ELSE [h EXCEPT !.ticks = @ + 1]
  /\ audioEngine' = Deliver(audioEngine, eng')
  /\ UNCHANGED <<callers, plays, mixer, store, settings>>

\* the melody callback, watched
MelodyCall(D) ==
  /\ \E m \in MelodyDraws(D) :
       /\ eng' = playMelody(Begin(eng), m)
       /\ call' = [NoCall EXCEPT !.op = "melody", !.pre = Pre(eng),
                                 !.m = [gate |-> m.gate, dir |-> m.dir,
                                        walk |-> m.walk, lossy |-> m.lossy]]
  /\ hist' = Forget(hist)
  /\ audioEngine' = Deliver(audioEngine, eng')
  /\ UNCHANGED <<callers, plays, mixer, store, settings>>

\* the drum callbacks, watched: each is handed its template slot and draws for itself
KickCall(D) ==
  /\ \E note \in {"C4", "", "."}, r \in D.hit :
       /\ eng' = kickTick(Begin(eng), note, r)
       /\ call' = [NoCall EXCEPT !.op = "kick", !.pre = Pre(eng), !.note = note, !.r = r]
  /\ hist' = Forget(hist)
  /\ audioEngine' = Deliver(audioEngine, eng')
  /\ UNCHANGED <<callers, plays, mixer, store, settings>>

SnareCall(D) ==
  /\ \E note \in {"", "C4"}, r \in D.hit :
       /\ eng' = snareTick(Begin(eng), note, r)
       /\ call' = [NoCall EXCEPT !.op = "snare", !.pre = Pre(eng), !.note = note, !.r = r]
  /\ hist' = Forget(hist)
  /\ audioEngine' = Deliver(audioEngine, eng')
  /\ UNCHANGED <<callers, plays, mixer, store, settings>>

HatCall(D) ==
  /\ \E r \in D.hit :
       /\ eng' = hatTick(Begin(eng), "C4", r)
       /\ call' = [NoCall EXCEPT !.op = "hat", !.pre = Pre(eng), !.note = "C4", !.r = r]
  /\ hist' = Forget(hist)
  /\ audioEngine' = Deliver(audioEngine, eng')
  /\ UNCHANGED <<callers, plays, mixer, store, settings>>

\* AudioEngine.generateNewSong: the selected parameters are applied and the
\* transition is forced in the same turn (the awaits around them touch the
\* song tracking only)
GenerateNewSong(P, R, D) ==
  /\ \E params \in P, r \in R, t \in TransDraws(D) :
       eng' = skip(applyGenerationParams(Begin(eng), params, r), t)
  /\ hist' = Unmark(Forget(hist))
  /\ call' = NoCall
  /\ audioEngine' = Deliver(audioEngine, eng')
  /\ UNCHANGED <<callers, plays, mixer, store, settings>>

\* AudioEngine.initialize() up to its await of generativeEngine.initialize();
\* a call on an initialized wrapper returns at once
AudioInitialize(c) ==
  /\ audioEngine.inits[c] = "idle"
  /\ ~audioEngine.isInitialized
  /\ eng' = initialize(Begin(eng))
  /\ audioEngine' = audioInitializeBegin(audioEngine, c)
  /\ call' = NoCall
  /\ UNCHANGED <<callers, plays, hist, mixer, store, settings>>

\* the generative engine's load promise has resolved: the rest of
\* AudioEngine.initialize()
AudioInitialized(c) ==
  /\ audioEngine.inits[c] = "awaiting"
  /\ eng.loadPromise = "resolved"
  /\ audioEngine.subs < MaxSubscriptions
  /\ eng' = subscribe(Begin(eng), WrapperListener(audioEngine.subs + 1))
  /\ audioEngine' = audioInitializeEnd(audioEngine, c)
  /\ call' = NoCall
  /\ UNCHANGED <<callers, plays, hist, mixer, store, settings>>

\* AudioEngine.dispose()
AudioDispose ==
  /\ eng' = dispose(Begin(eng))
  /\ audioEngine' = audioDispose(Deliver(audioEngine, eng'))
  /\ hist' = Unmark([hist EXCEPT !.halt = "stop", !.resumed = FALSE, !.snap = Content(eng)])
  /\ call' = NoCall
  /\ UNCHANGED <<callers, plays, mixer, store, settings>>

\* AudioEngine.play() on an initialized wrapper, as the playback toggle issues it
AudioPlay(p) == audioEngine.isInitialized /\ ~eng.isPlaying /\ PlayCall(p)

\* useSettingsStore.setBpmRange
SetBpmRange(B) ==
  /\ \E min \in B, max \in B : settings' = setBpmRange(settings, min, max)
  /\ eng' = Begin(eng)
  /\ call' = NoCall
  /\ UNCHANGED <<callers, plays, hist, mixer, store, audioEngine>>

\* getAllowedTempoArms called with any two numbers
AllowedTempoArms(B) ==
  /\ \E bpmMin \in B, bpmMax \in B :
       settings' = [settings EXCEPT !.asked = [bpmMin |-> bpmMin, bpmMax |-> bpmMax],
                                    !.arms = getAllowedTempoArms(bpmMin, bpmMax)]
  /\ eng' = Begin(eng)
  /\ call' = NoCall
  /\ UNCHANGED <<callers, plays, hist, mixer, store, audioEngine>>

\* getAllowedTempoArms called with the range of the settings store
AllowedTempoArmsOfSettings ==
  /\ settings' = [settings EXCEPT
                    !.asked = [bpmMin |-> settings.bpmMin, bpmMax |-> settings.bpmMax],
                    !.arms = getAllowedTempoArms(settings.bpmMin, settings.bpmMax)]
  /\ eng' = Begin(eng)
  /\ call' = NoCall
  /\ UNCHANGED <<callers, plays, hist, mixer, store, audioEngine>>

\* the noise type of the settings store is chosen, or restored from
\* persistence; the Player's effect then hands it to useAudioStore.setNoiseType,
\* which passes it on only if the store has seen the wrapper initialized
SetNoiseSetting(T) ==
  /\ \E type \in T :
       /\ settings' = [settings EXCEPT !.noiseType = type]
       /\ eng' = IF audioEngine.seen.isInitialized
                 THEN setNoiseType(Begin(eng), type)
                 ELSE Begin(eng)
  /\ audioEngine' = Deliver(audioEngine, eng')
  /\ call' = NoCall
  /\ UNCHANGED <<callers, plays, hist, mixer, store>>

ApplyParams(P, R) ==
  /\ \E params \in P, r \in R : eng' = applyGenerationParams(Begin(eng), params, r)
  /\ call' = NoCall
  /\ audioEngine' = Deliver(audioEngine, eng')
  /\ UNCHANGED <<callers, plays, hist, mixer, store, settings>>

\* the arm methods are public and may be called one at a time
ApplyTempo(P, R) ==
  /\ \E params \in P, r \in R : eng' = applyTempo(Begin(eng), params.tempo, r)
  /\ call' = NoCall
  /\ audioEngine' = Deliver(audioEngine, eng')
  /\ UNCHANGED <<callers, plays, hist, mixer, store, settings>>

ApplyEnergy(P) ==
  /\ \E params \in P : eng' = applyEnergy(Begin(eng), params.energy)
  /\ call' = NoCall
  /\ audioEngine' = Deliver(audioEngine, eng')
  /\ UNCHANGED <<callers, plays, hist, mixer, store, settings>>

ApplyDanceability(P) ==
  /\ \E params \in P : eng' = applyDanceability(Begin(eng), params.danceability)
  /\ call' = NoCall
  /\ audioEngine' = Deliver(audioEngine, eng')
  /\ UNCHANGED <<callers, plays, hist, mixer, store, settings>>

ApplyValence(P) ==
  /\ \E params \in P : eng' = applyValence(Begin(eng), params.valence)
  /\ call' = NoCall
  /\ audioEngine' = Deliver(audioEngine, eng')
  /\ UNCHANGED <<callers, plays, hist, mixer, store, settings>>

Subscribe(l) ==
  /\ l \notin eng.listeners
  /\ eng' = subscribe(Begin(eng), l)
  /\ hist' = [hist EXCEPT !.subs = @ \cup {l}, !.gone = @ \ {l}]
  /\ call' = NoCall
  /\ audioEngine' = Deliver(audioEngine, eng')
  /\ UNCHANGED <<callers, plays, mixer, store, settings>>

\* the function returned by subscribe(l) is called
Unsubscribe(l) ==
  /\ l \in hist.subs
  /\ eng' = unsubscribe(Begin(eng), l)
  /\ hist' = [hist EXCEPT !.subs = @ \ {l}, !.gone = @ \cup {l}]
  /\ call' = NoCall
  /\ audioEngine' = Deliver(audioEngine, eng')
  /\ UNCHANGED <<callers, plays, mixer, store, settings>>

SetVolume(V) ==
  /\ \E volume \in V : eng' = setVolume(Begin(eng), volume)
  /\ call' = NoCall
  /\ audioEngine' = Deliver(audioEngine, eng')
  /\ UNCHANGED <<callers, plays, hist, mixer, store, settings>>

SetNoiseType(T) ==
  /\ \E type \in T : eng' = setNoiseType(Begin(eng), type)
  /\ call' = NoCall
  /\ audioEngine' = Deliver(audioEngine, eng')
  /\ UNCHANGED <<callers, plays, hist, mixer, store, settings>>

SetNoiseVolume(V) ==
  /\ \E volume \in V : eng' = setNoiseVolume(Begin(eng), volume)
  /\ call' = NoCall
  /\ audioEngine' = Deliver(audioEngine, eng')
  /\ UNCHANGED <<callers, plays, hist, mixer, store, settings>>

\* the observer marks the current progression index
Mark ==
  /\ Len(eng.progression) > 0
  /\ hist.mark = -1
  /\ hist' = [hist EXCEPT !.mark = eng.progressIndex, !.ticks = 0]
  /\ call' = NoCall
  /\ UNCHANGED <<eng, callers, plays, mixer, store, audioEngine, settings>>

MixerLoadPack ==
  /\ ~mixer.pack
  /\ mixer' = mixerLoadPack(mixer)
  /\ call' = NoCall
  /\ UNCHANGED <<eng, callers, plays, hist, store, audioEngine, settings>>

MixerStart ==
  /\ mixer' = mixerStart(mixer)
  /\ call' = NoCall
  /\ UNCHANGED <<eng, callers, plays, hist, store, audioEngine, settings>>

MixerStop ==
  /\ mixer' = mixerStop(mixer)
  /\ call' = NoCall
  /\ UNCHANGED <<eng, callers, plays, hist, store, audioEngine, settings>>

\* the bar callback scheduled by start(), while the transport runs
MixerOnBar ==
  /\ mixer.barCallback
  /\ mixer.sectionCount < MaxSections
  /\ mixer' = mixerOnBar(mixer)
  /\ call' = NoCall
  /\ UNCHANGED <<eng, callers, plays, hist, store, audioEngine, settings>>

\* ----------------------------------------------------------- specifications
\* Loading and transport control, no ticks.
DLoad ==
  [key |-> {0, 999}, prog |-> {0}, pos |-> {500}, dens |-> {0},
   kick |-> {999}, snare |-> {999}, hat |-> {999}, mel |-> {999},
   len |-> {0, 999}]

NextLoad ==
  \/ \E c \in CallerIds : Initialize(c)
  \/ \E p \in PlayIds : PlayCall(p)
  \/ LoadComplete
  \/ \E p \in PlayIds : PlayResume(p, DLoad)
  \/ Pause
  \/ Stop
  \/ Skip(DLoad)

SpecLoad == Init /\ [][NextLoad]_vars

\* Bars and sections: every section length, the mute re-rolls held at one draw.
DSection ==
  [key |-> {0, 999}, prog |-> {0, 999}, pos |-> {500}, dens |-> {0},
   kick |-> {999}, snare |-> {999}, hat |-> {999}, mel |-> {999},
   len |-> AllLengths]

NextSection ==
  \/ \E p \in PlayIds : PlayCall(p)
  \/ LoadComplete
  \/ \E p \in PlayIds : PlayResume(p, DSection)
  \/ Pause
  \/ Stop
  \/ Skip(DSection)
  \/ ChordTick(DSection)

Spec == Init /\ [][NextSection]_vars

\* play() as the playback toggle issues it: only while not playing
PlayIdle(p) == ~eng.isPlaying /\ PlayCall(p)

\* The melodic walk: every walk draw, regenerations by skip(), by the first
\* play() and at section boundaries, one key and one section-length draw.
DMelody ==
  [key |-> {0}, prog |-> {0}, pos |-> {0, 500, 999}, dens |-> {0},
   kick |-> {999}, snare |-> {999}, hat |-> {999}, mel |-> {0, 999},
   len |-> {0}, gate |-> {0, 999}, dir |-> {0, 999}, walk |-> WalkDraws]

PMelody ==
  {[tempo |-> "medium", energy |-> "high", danceability |-> "groovy", valence |-> "happy"]}

NextMelody ==
  \/ \E p \in PlayIds : PlayIdle(p)
  \/ LoadComplete
  \/ \E p \in PlayIds : PlayResume(p, DMelody)
  \/ Skip(DMelody)
  \/ ChordTick(DMelody)
  \/ MelodyTick(DMelody)
  \/ ApplyParams(PMelody, {500})

SpecMelody == Init /\ [][NextMelody]_vars

\* The SampleMixer counters.
NextMixer ==
  \/ MixerLoadPack
  \/ MixerStart
  \/ MixerStop
  \/ MixerOnBar

SpecMixer == Init /\ [][NextMixer]_vars

\* The progression cycle: chord ticks counted from a marked index.
DCycle ==
  [key |-> {0}, prog |-> {0}, pos |-> {500}, dens |-> {0},
   kick |-> {999}, snare |-> {999}, hat |-> {999}, mel |-> {999},
   len |-> {0, 500}]

NextCycle ==
  \/ \E p \in PlayIds : PlayIdle(p)
  \/ LoadComplete
  \/ \E p \in PlayIds : PlayResume(p, DCycle)
  \/ Pause
  \/ Stop
  \/ Skip(DCycle)
  \/ ChordTick(DCycle)
  \/ Mark

SpecCycle == Init /\ [][NextCycle]_vars

\* The drum voices under the energy arm.
DDrums ==
  [key |-> {0}, prog |-> {0}, pos |-> {500}, dens |-> {0},
   kick |-> {0, 999}, snare |-> {0, 999}, hat |-> {0, 999}, mel |-> {999},
   len |-> {0}, hit |-> {0, 999}]

PDrums ==
  [tempo : {"medium"}, energy : {"low", "medium", "high"},
   danceability : {"groovy"}, valence : {"happy"}]

NextDrums ==
  \/ \E p \in PlayIds : PlayIdle(p)
  \/ LoadComplete
  \/ \E p \in PlayIds : PlayResume(p, DDrums)
  \/ ChordTick(DDrums)
  \/ KickTick(DDrums)
  \/ SnareTick(DDrums)
  \/ HatTick(DDrums)
  \/ ApplyParams(PDrums, {500})

SpecDrums == Init /\ [][NextDrums]_vars

\* Listeners: what a subscriber is handed by each handler.
DNotify ==
  [key |-> {0, 999}, prog |-> {0}, pos |-> {0}, dens |-> {0},
   kick |-> {999}, snare |-> {999}, hat |-> {999}, mel |-> {999},
   len |-> {0}, gate |-> {0}, dir |-> {0, 999},
   walk |-> {[r |-> 400, lossy |-> FALSE]}]

NextNotify ==
  \/ \E l \in ListenerIds : Subscribe(l)
  \/ \E l \in ListenerIds : Unsubscribe(l)
  \/ \E p \in PlayIds : PlayIdle(p)
  \/ LoadComplete
  \/ \E p \in PlayIds : PlayResume(p, DNotify)
  \/ Pause
  \/ Stop
  \/ Skip(DNotify)
  \/ ChordTick(DNotify)
  \/ MelodyTick(DNotify)

SpecNotify == Init /\ [][NextNotify]_vars

\* Parameter application in every transport state: the four arm methods one
\* at a time and applyGenerationParams, around play / pause / stop / skip.
DParams ==
  [key |-> {0}, prog |-> {0}, pos |-> {500}, dens |-> {0},
   kick |-> {999}, snare |-> {0}, hat |-> {999}, mel |-> {999},
   len |-> {0}]

PParams ==
  {[tempo |-> "focus", energy |-> "low", danceability |-> "chill", valence |-> "sad"],
   [tempo |-> "fast", energy |-> "high", danceability |-> "bouncy", valence |-> "happy"]}

\* Math.random() in applyTempo: both ends of the range
TempoDraws == {0, 999}

NextParams ==
  \/ \E p \in PlayIds : PlayIdle(p)
  \/ LoadComplete
  \/ \E p \in PlayIds : PlayResume(p, DParams)
  \/ Pause
  \/ Skip(DParams)
  \/ ApplyTempo(PParams, TempoDraws)
  \/ ApplyEnergy(PParams)
  \/ ApplyDanceability(PParams)
  \/ ApplyValence(PParams)
  \/ ApplyParams(PParams, TempoDraws)

SpecParams == Init /\ [][NextParams]_vars

\* The valence arm across regenerations: first play, skip, section boundaries.
DValence ==
  [key |-> {0, 999}, prog |-> {0}, pos |-> {500}, dens |-> {0},
   kick |-> {999}, snare |-> {999}, hat |-> {999}, mel |-> {999},
   len |-> {0}]

PValence ==
  [tempo : {"medium"}, energy : {"medium"}, danceability : {"groovy"},
   valence : {"sad", "neutral", "happy"}]

NextValence ==
  \/ \E p \in PlayIds : PlayIdle(p)
  \/ LoadComplete
  \/ \E p \in PlayIds : PlayResume(p, DValence)
  \/ Skip(DValence)
  \/ ChordTick(DValence)
  \/ ApplyValence(PValence)
  \/ ApplyParams(PValence, {500})

SpecValence == Init /\ [][NextValence]_vars

\* The public operations under observation by a listener.
DPublic ==
  [key |-> {0, 999}, prog |-> {0}, pos |-> {500}, dens |-> {0},
   kick |-> {999}, snare |-> {999}, hat |-> {999}, mel |-> {999},
   len |-> {0}]

PPublic ==
  {[tempo |-> "focus", energy |-> "low", danceability |-> "chill", valence |-> "happy"]}

NoiseTypes == {"off", "white"}
\* thousandths: silent, above the range
NoiseVolumes == {0, 1500}

NextPublic ==
  \/ \E l \in ListenerIds : Subscribe(l)
  \/ \E l \in ListenerIds : Unsubscribe(l)
  \/ \E p \in PlayIds : PlayIdle(p)
  \/ LoadComplete
  \/ \E p \in PlayIds : PlayResume(p, DPublic)
  \/ Pause
  \/ Stop
  \/ Skip(DPublic)
  \/ SetNoiseType(NoiseTypes)
  \/ SetNoiseVolume(NoiseVolumes)
  \/ ApplyTempo(PPublic, {0})

SpecPublic == Init /\ [][NextPublic]_vars

\* Listeners coming and going side by side while the engine notifies.
DSubscribe ==
  [key |-> {0}, prog |-> {0}, pos |-> {500}, dens |-> {0},
   kick |-> {999}, snare |-> {999}, hat |-> {999}, mel |-> {999},
   len |-> {0}]

NextSubscribe ==
  \/ \E l \in ObserverIds : Subscribe(l)
  \/ \E l \in ObserverIds : Unsubscribe(l)
  \/ \E p \in PlayIds : PlayIdle(p)
  \/ LoadComplete
  \/ \E p \in PlayIds : PlayResume(p, DSubscribe)
  \/ Pause
  \/ Skip(DSubscribe)
  \/ SetNoiseVolume({500})

SpecSubscribe == Init /\ [][NextSubscribe]_vars

\* The one-shot timer of a transition against stop() and dispose(); nothing
\* is called on a disposed engine here.
DTimers ==
  [key |-> {0}, prog |-> {0}, pos |-> {500}, dens |-> {0},
   kick |-> {999}, snare |-> {999}, hat |-> {999}, mel |-> {999},
   len |-> {0}]

NextTimers ==
  \/ \E p \in PlayIds : ~eng.disposed /\ PlayIdle(p)
  \/ ~eng.disposed /\ LoadComplete
  \/ \E p \in PlayIds : ~eng.disposed /\ PlayResume(p, DTimers)
  \/ ~eng.disposed /\ Stop
  \/ ~eng.disposed /\ Skip(DTimers)
  \/ ~eng.disposed /\ ChordTick(DTimers)
  \/ ~eng.disposed /\ Dispose
  \/ RampTimer

SpecTimers == Init /\ [][NextTimers]_vars

\* Loading sampler by sampler, each with either outcome.
DSamples ==
  [key |-> {0}, prog |-> {0}, pos |-> {500}, dens |-> {0},
   kick |-> {999}, snare |-> {999}, hat |-> {999}, mel |-> {999},
   len |-> {0}]

NextSamples ==
  \/ \E c \in CallerIds : Initialize(c)
  \/ \E p \in PlayIds : PlayIdle(p)
  \/ \E s \in SampleIds : SampleSettled(s, "loaded")
  \/ \E s \in SampleIds : SampleSettled(s, "failed")
  \/ \E p \in PlayIds : PlayResume(p, DSamples)
  \/ Pause

SpecSamples == Init /\ [][NextSamples]_vars

\* play() through the store, with the audio unlock granted or refused.
DUnlock ==
  [key |-> {0, 999}, prog |-> {0}, pos |-> {500}, dens |-> {0},
   kick |-> {999}, snare |-> {999}, hat |-> {999}, mel |-> {999},
   len |-> {0, 999}]

NextUnlock ==
  \/ \E p \in PlayIds : StorePlay(p)
  \/ LoadComplete
  \/ \E p \in PlayIds : StorePlayResolve(p, DUnlock)
  \/ \E p \in PlayIds : StorePlayReject(p)
  \/ Pause
  \/ Stop
  \/ Skip(DUnlock)

SpecUnlock == Init /\ [][NextUnlock]_vars

\* The chord and melody callbacks invoked in every engine state, also those in
\* which the sequences do not run: nothing loaded, no progression yet.
DCallbacks ==
  [key |-> {0}, prog |-> {0}, pos |-> {500}, dens |-> {0},
   kick |-> {999}, snare |-> {999}, hat |-> {999}, mel |-> {999},
   len |-> {0}, gate |-> {0, 999}, dir |-> {999},
   walk |-> {[r |-> 0, lossy |-> FALSE], [r |-> 999, lossy |-> TRUE]}]

NextCallbacks ==
  \/ \E p \in PlayIds : PlayIdle(p)
  \/ LoadComplete
  \/ \E p \in PlayIds : PlayResume(p, DCallbacks)
  \/ Stop
  \/ Skip(DCallbacks)
  \/ ChordCall(DCallbacks)
  \/ MelodyCall(DCallbacks)

SpecCallbacks == Init /\ [][NextCallbacks]_vars

\* The drum voices while the sequences run: both outcomes of every mute
\* re-roll, every template slot, a draw under and a draw over every firing
\* probability.
DVoices ==
  [key |-> {0}, prog |-> {0}, pos |-> {500}, dens |-> {0},
   kick |-> {0, 999}, snare |-> {0, 999}, hat |-> {0, 999}, mel |-> {999},
   len |-> {0}, hit |-> {0, 999}]

NextVoices ==
  \/ \E p \in PlayIds : PlayIdle(p)
  \/ LoadComplete
  \/ \E p \in PlayIds : PlayResume(p, DVoices)
  \/ Pause
  \/ ChordTick(DVoices)
  \/ Ticking /\ KickCall(DVoices)
  \/ Ticking /\ SnareCall(DVoices)
  \/ Ticking /\ HatCall(DVoices)

SpecVoices == Init /\ [][NextVoices]_vars

\* Every operation of the engine side by side, each with few draws: which of
\* them replace the key, the scale and the progression.
DFrame ==
  [key |-> {0, 999}, prog |-> {999}, pos |-> {500}, dens |-> {0},
   kick |-> {999}, snare |-> {999}, hat |-> {999}, mel |-> {999},
   len |-> {0}, gate |-> {0}, dir |-> {0},
   walk |-> {[r |-> 0, lossy |-> FALSE]}, hit |-> {0}]

PFrame ==
  {[tempo |-> "slow", energy |-> "medium", danceability |-> "groovy", valence |-> "sad"]}

NextFrame ==
  \/ \E p \in PlayIds : PlayIdle(p)
  \/ LoadComplete
  \/ \E p \in PlayIds : PlayResume(p, DFrame)
  \/ Pause
  \/ Stop
  \/ Skip(DFrame)
  \/ ChordTick(DFrame)
  \/ MelodyTick(DFrame)
  \/ HatTick(DFrame)
  \/ SetVolume({500})
  \/ SetNoiseType({"off"})
  \/ SetNoiseVolume({300})
  \/ ApplyParams(PFrame, {500})

SpecFrame == Init /\ [][NextFrame]_vars

\* The per-cycle re-roll: chord ticks watched with both outcomes of the kick
\* and melody mute draws, around stop(), skip() and section boundaries.
DReroll ==
  [key |-> {0}, prog |-> {0}, pos |-> {500}, dens |-> {999},
   kick |-> {0, 999}, snare |-> {0}, hat |-> {999}, mel |-> {0, 999},
   len |-> {0}]

NextReroll ==
  \/ \E p \in PlayIds : PlayIdle(p)
  \/ LoadComplete
  \/ \E p \in PlayIds : PlayResume(p, DReroll)
  \/ Stop
  \/ Skip(DReroll)
  \/ Ticking /\ ChordCall(DReroll)

SpecReroll == Init /\ [][NextReroll]_vars

\* The melody callback watched while the sequences run: the cursor started at
\* the bottom, the middle and the top of the scale, every step distance, the
\* voice muted and not. The cumulative weights of the modelled table reach 1
\* exactly for every slice, so no draw exceeds the last one.
ExactWalkDraws == {w \in WalkDraws : ~w.lossy}

DWalk ==
  [key |-> {0}, prog |-> {0}, pos |-> {0, 500, 999}, dens |-> {0},
   kick |-> {999}, snare |-> {999}, hat |-> {999}, mel |-> {0, 999},
   len |-> {0}, gate |-> {0, 999}, dir |-> {0, 999}, walk |-> ExactWalkDraws]

NextWalk ==
  \/ \E p \in PlayIds : PlayIdle(p)
  \/ LoadComplete
  \/ \E p \in PlayIds : PlayResume(p, DWalk)
  \/ Pause
  \/ Skip(DWalk)
  \/ Ticking /\ MelodyCall(DWalk)

SpecWalk == Init /\ [][NextWalk]_vars

\* play() overtaken by pause() or stop(): play() is invoked only while no
\* pause() or stop() has been issued since the last tick, so that whenever
\* hist.halt is set, the command invoked last is that pause() or stop().
PlayFirst(p) == hist.halt = "none" /\ PlayCall(p)

DRace ==
  [key |-> {0}, prog |-> {0}, pos |-> {500}, dens |-> {0},
   kick |-> {999}, snare |-> {999}, hat |-> {999}, mel |-> {999},
   len |-> {0, 999}]

NextRace ==
  \/ \E p \in PlayIds : PlayFirst(p)
  \/ LoadComplete
  \/ \E p \in PlayIds : PlayResume(p, DRace)
  \/ Pause
  \/ Stop
  \/ ChordTick(DRace)

SpecRace == Init /\ [][NextRace]_vars

\* dispose() followed by initialize() and play(), as the store's retry issues
\* them, around loading and playing.
DRetry ==
  [key |-> {0}, prog |-> {0}, pos |-> {500}, dens |-> {0},
   kick |-> {999}, snare |-> {999}, hat |-> {999}, mel |-> {999},
   len |-> {0, 999}]

NextRetry ==
  \/ \E c \in CallerIds : Initialize(c)
  \/ \E p \in PlayIds : PlayIdle(p)
  \/ LoadComplete
  \/ \E p \in PlayIds : PlayResume(p, DRetry)
  \/ Pause
  \/ Dispose
  \/ ChordTick(DRetry)

SpecRetry == Init /\ [][NextRetry]_vars

\* A new song on request: every energy arm, both outcomes of the kick and
\* snare mute draws and both ends of the density draw of the transition.
DSong ==
  [key |-> {0}, prog |-> {0}, pos |-> {500}, dens |-> {0, 999},
   kick |-> {0, 999}, snare |-> {0, 999}, hat |-> {999}, mel |-> {999},
   len |-> {0}, gate |-> {300}, dir |-> {0}, hit |-> {0},
   walk |-> {[r |-> 0, lossy |-> FALSE]}]

NextSong ==
  \/ \E p \in PlayIds : PlayIdle(p)
  \/ LoadComplete
  \/ \E p \in PlayIds : PlayResume(p, DSong)
  \/ Pause
  \/ GenerateNewSong(PDrums, {500}, DSong)
  \/ MelodyTick(DSong)
  \/ KickTick(DSong)
  \/ SnareTick(DSong)

SpecSong == Init /\ [][NextSong]_vars

\* The tempo arms allowed for a BPM range: arguments below, at, between and
\* above the ends of the configured ranges, in either order.
BpmInputs == {55, 60, 65, 70, 72, 73, 78, 80, 86, 90, 94, 100, 102, 103, 110}

\* the slider moved past either end and to two points within
RangeInputs == {55, 72, 86, 110}

NextArms ==
  \/ SetBpmRange(RangeInputs)
  \/ AllowedTempoArms(BpmInputs)
  \/ AllowedTempoArmsOfSettings

SpecArms == Init /\ [][NextArms]_vars

\* The wrapper around the engine: its initialize() calls side by side, play,
\* pause, stop, dispose, a new song and chord ticks, with a key and a tempo
\* arm away from the initial ones.
DWrapper ==
  [key |-> {999}, prog |-> {999}, pos |-> {500}, dens |-> {0},
   kick |-> {999}, snare |-> {999}, hat |-> {999}, mel |-> {999},
   len |-> {0}]

PWrapper ==
  {[tempo |-> "fast", energy |-> "medium", danceability |-> "groovy", valence |-> "sad"]}

NextWrapper ==
  \/ \E c \in CallerIds : AudioInitialize(c)
  \/ LoadComplete
  \/ \E c \in CallerIds : AudioInitialized(c)
  \/ AudioDispose
  \/ \E p \in PlayIds : AudioPlay(p)
  \/ \E p \in PlayIds : PlayResume(p, DWrapper)
  \/ Pause
  \/ Stop
  \/ GenerateNewSong(PWrapper, {500}, DWrapper)
  \/ ChordTick(DWrapper)

SpecWrapper == Init /\ [][NextWrapper]_vars

\* The noise setting against the life of the wrapper: chosen or restored
\* before and after the wrapper is initialized, then played.
DNoise ==
  [key |-> {0}, prog |-> {0}, pos |-> {500}, dens |-> {0},
   kick |-> {999}, snare |-> {999}, hat |-> {999}, mel |-> {999},
   len |-> {0}]

NextNoise ==
  \/ SetNoiseSetting({"off", "white", "pink"})
  \/ \E c \in CallerIds : AudioInitialize(c)
  \/ LoadComplete
  \/ \E c \in CallerIds : AudioInitialized(c)
  \/ \E p \in PlayIds : AudioPlay(p)
  \/ \E p \in PlayIds : PlayResume(p, DNoise)
  \/ Pause

SpecNoise == Init /\ [][NextNoise]_vars

\* ------------------------------------------------------------------- claims
\* C1: however many initialize() calls are issued while the load is in flight
\* or after it has completed, _initialize runs at most once, every caller
\* settles together with (and with the outcome of) that one load, and a caller
\* that has resolved, or a play() past its await of initialize(), sees
\* isLoaded = true.
C1_InitializeOnce ==
  /\ eng.loadRuns <= 1
  /\ \A c \in CallerIds :
       /\ callers[c] = "resolved" => eng.isLoaded /\ eng.loadPromise = "resolved"
       /\ callers[c] = "waiting" => eng.loadPromise = "pending"
  /\ \A p \in PlayIds :
       /\ plays[p] = "awaitUnlock" => eng.isLoaded
       /\ plays[p] = "awaitInit" => eng.loadPromise = "pending"
  /\ eng.isLoaded <=> eng.loadPromise = "resolved"

\* every external caller and a play() have been through initialize(), one load ran
C1_Witness ==
  /\ \A c \in CallerIds : callers[c] = "resolved"
  /\ eng.loadRuns = 1
  /\ eng.isLoaded
  /\ eng.isPlaying

\* C2: once a scale has been generated the melody cursor is an index of it,
\* 0 <= scalePos < scale.length, whatever ticks, transitions, skips, parameter
\* changes and draws occurred (the draws include a sampled step distance equal
\* to the whole direction range).
C2_CursorInScale ==
  Len(eng.scale) > 0 => eng.scalePos >= 0 /\ eng.scalePos < Len(eng.scale)

\* a melody tick has just sounded the top note of the scale
C2_Witness ==
  /\ "melody" \in eng.fired
  /\ eng.scalePos = Len(eng.scale) - 1
  /\ eng.barCount > 0

\* a step of the chord tick handler (the first two conjuncts follow from the
\* third and are there to decide most steps without enumerating draws)
ChordStep ==
  /\ eng'.transport = "started"
  /\ eng'.regen => eng'.fired # {}
  /\ ChordTick(DSection)

\* C3: a chord tick performs a section transition if and only if its increment
\* brings the bar counter up to the current section length (barCount + 1 >=
\* sectionLength, the comparison of nextChord); right after such a tick the bar
\* counter is 0, and on every other chord tick the bar counter grows by exactly
\* 1 and key, scale, progression, scale position and section length stay.
C3_TransitionAtBoundary ==
  [][ChordStep =>
        IF eng.barCount + 1 >= eng.sectionLength
        THEN eng'.regen /\ eng'.barCount = 0
        ELSE /\ ~eng'.regen
             /\ eng'.barCount = eng.barCount + 1
             /\ eng'.key = eng.key
             /\ eng'.scale = eng.scale
             /\ eng'.progression = eng.progression
             /\ eng'.scalePos = eng.scalePos
             /\ eng'.sectionLength = eng.sectionLength]_vars

\* a chord tick has just closed a section and regenerated the content in F
C3_Witness ==
  /\ "chord" \in eng.fired
  /\ eng.regen
  /\ eng.barCount = 0
  /\ eng.key = "F"
  /\ hist.halt = "none"

\* C6 (as claimed): skip() leaves the engine as a section-boundary chord tick
\* does: bar counter 0, content regenerated with progressIndex 0, so the next
\* automatic transition is sectionLength chord ticks away.
C6_SkipResetsBarCounter ==
  [][Skip(DSection) =>
        /\ eng'.regen
        /\ eng'.progressIndex = 0
        /\ eng'.barCount = 0]_vars

\* C8: stop() followed by play(), when a progression existed at the stop,
\* leaves progressIndex = 0 and barCount = 0 with the key, scale and
\* progression that were there before the stop: both while halted and once
\* play() has resumed.
C8_StopThenPlay ==
  hist.halt = "stop" /\ Len(hist.snap.progression) > 0 =>
    /\ eng.progressIndex = 0
    /\ eng.barCount = 0
    /\ eng.key = hist.snap.key
    /\ eng.scale = hist.snap.scale
    /\ eng.progression = hist.snap.progression
    /\ eng.isPlaying = hist.resumed

\* play() has resumed after a stop() taken in the middle of a section in F
C8_Witness ==
  /\ hist.halt = "stop"
  /\ hist.resumed
  /\ eng.isPlaying
  /\ hist.snap.barCount > 0
  /\ hist.snap.progressIndex > 0
  /\ hist.snap.key = "F"

\* C9: pause() of an engine that has a progression changes the playing flag
\* only: bar counter, section length, progression index, key, progression,
\* scale and scale position are those before the pause, while paused and once a
\* following play() has resumed.
C9_PauseKeepsPosition ==
  hist.halt = "pause" /\ Len(hist.snap.progression) > 0 =>
    /\ Content(eng) = hist.snap
    /\ eng.isPlaying = hist.resumed

\* play() has resumed after a pause() taken in the middle of a section
C9_Witness ==
  /\ hist.halt = "pause"
  /\ hist.resumed
  /\ eng.isPlaying
  /\ eng.barCount > 8
  /\ eng.progressIndex > 0

C5_ProgressionCycles ==
  hist.mark # -1 =>
    /\ Len(eng.progression) = ProgressionLength
    /\ eng.progressIndex = (hist.mark + hist.ticks) % ProgressionLength
    /\ hist.ticks = ProgressionLength => eng.progressIndex = hist.mark

\* 8 chord ticks have been played since index 5 was marked
C5_Witness ==
  /\ hist.mark = 5
  /\ hist.ticks = ProgressionLength
  /\ eng.progressIndex = 5

\* C7 (as claimed): while the lowest energy arm is the one in effect, no kick
\* and no snare trigger is issued, whatever the mute re-rolls did in between.
C7_LowEnergySilencesDrums ==
  eng.currentParams.energy = "low" => eng.fired \cap {"kick", "snare"} = {}

\* what a tick or a listener can observe of the content: o.state is the public
\* state, o.scale / o.scalePos / o.progKey the private content beside it
Consistent(o) ==
  /\ o.scale = buildScale(o.state.key)
  /\ o.progKey = o.state.key
  /\ o.state.progressIndex < Len(o.state.progression)
  /\ o.scalePos < Len(o.scale)

Observed(e) ==
  [state |-> getState(e), scale |-> e.scale, scalePos |-> e.scalePos,
   progKey |-> e.progKey]

\* C10 (as claimed): at the start of every chord or melody tick and in every
\* snapshot delivered to a listener, the scale is the one built from the key,
\* the progression is the one generated with that key, progressIndex is below
\* the progression length and scalePos below the scale length.
C10_AlwaysConsistent ==
  /\ Ticking => Consistent(Observed(eng))
  /\ \A i \in 1..Len(eng.notified) : Consistent(eng.notified[i])

\* C10 (amended): the same, for every tick and for every snapshot delivered
\* once content has been generated; a snapshot delivered before the first
\* generation carries the initial key with an empty scale and progression.
C10_ConsistentOnceGenerated ==
  /\ Ticking => Consistent(Observed(eng))
  /\ \A i \in 1..Len(eng.notified) :
       LET o == eng.notified[i]
       IN \/ Consistent(o)
          \/ /\ o.progKey = ""
             /\ o.state.key = "C"
             /\ o.state.progression = <<>>
             /\ o.scale = <<>>
             /\ o.state.progressIndex = 0
             /\ o.scalePos = 0

\* a chord tick has crossed a section boundary into another key and a listener
\* has received the snapshots of the regeneration
C10_Witness ==
  /\ eng.regen
  /\ "chord" \in eng.fired
  /\ Len(eng.notified) = 2
  /\ eng.notified[1].state.key = "F"
  /\ eng.notified[1].progKey = "F"
  /\ Ticking

\* C11: a handler that applies arms (applyTempo, applyEnergy, applyDanceability,
\* applyValence, or applyGenerationParams) leaves isPlaying, isLoaded, key,
\* progression, progressIndex, scale, scalePos, barCount and sectionLength
\* unchanged and does not start, pause or stop the transport, the sequences or
\* the noise, in every engine state.
C11_ApplyLeavesTransportAndContent ==
  [][eng'.applied # NoParams =>
       /\ Content(eng') = Content(eng)
       /\ eng'.isPlaying = eng.isPlaying
       /\ eng'.isLoaded = eng.isLoaded
       /\ eng'.transport = eng.transport
       /\ eng'.seqs = eng.seqs
       /\ eng'.noiseOn = eng.noiseOn]_vars

\* arms have just been applied to a playing engine in the middle of its content
C11_Witness ==
  /\ eng.applied \in PParams
  /\ eng.isPlaying
  /\ eng.transport = "started"
  /\ Len(eng.progression) = ProgressionLength

\* the keys a regeneration may draw under valence arm v
KeysFor(v) ==
  LET list == IF v # "null" /\ VALENCE_PARAMS[v].useMinor THEN MINOR_KEYS ELSE MAJOR_KEYS
  IN {list[i] : i \in 1..Len(list)}

\* C12: applying a valence arm leaves the current key (and its scale and
\* progression) unchanged, and every regeneration draws the key from the minor
\* list if and only if the valence arm applied last prefers minor, otherwise
\* (also when none was applied) from the major list.
C12_ValenceAppliesAtRegeneration ==
  [][/\ eng'.applied.valence # "null" =>
          /\ eng'.key = eng.key
          /\ eng'.scale = eng.scale
          /\ eng'.progression = eng.progression
     /\ eng'.regen => eng'.key \in KeysFor(eng.lastValence)]_vars

\* a section boundary has regenerated in a minor key after the sad arm
C12_Witness ==
  /\ eng.regen
  /\ "chord" \in eng.fired
  /\ eng.lastValence = "sad"
  /\ eng.key \in {"A", "D"}

\* C13: right after applyGenerationParams(p), getState() returns the BPM stored
\* for p.tempo, which is the transport's BPM register, and the transport swing
\* is that of p.danceability, whether or not the engine is playing.
C13_ParamsVisibleAtOnce ==
  eng.applied # NoParams /\ eng.currentParams = eng.applied =>
    /\ getState(eng).bpm = eng.transportBpm
    /\ getState(eng).bpm >= 2 * TEMPO_RANGES[eng.applied.tempo].min
    /\ getState(eng).bpm <= 2 * TEMPO_RANGES[eng.applied.tempo].max
    /\ eng.swing = DANCEABILITY_PARAMS[eng.applied.danceability].swing

\* parameters have just been applied to an engine that is not loaded
C13_Witness ==
  /\ eng.applied \in PParams
  /\ eng.currentParams = eng.applied
  /\ ~eng.isPlaying
  /\ ~eng.isLoaded
  /\ eng.bpm = 204
  /\ eng.swing = 650

\* the settings the arm methods write
Settings(e) ==
  [bpm |-> e.bpm, transportBpm |-> e.transportBpm, melodyDensity |-> e.melodyDensity,
   currentVelocity |-> e.currentVelocity, kickOff |-> e.kickOff, snareOff |-> e.snareOff,
   swing |-> e.swing, kickEmphasis |-> e.kickEmphasis,
   hihatActivity |-> e.hihatActivity, preferMinor |-> e.preferMinor]

\* this handler applies exactly the arms the previous handler applied
AppliedAgain == eng.applied # NoParams /\ eng'.applied = eng.applied

\* C14 (as claimed): applying the same arm, or the same GenerationParams value,
\* twice in a row leaves the settings as after the first application.
C14_Idempotent ==
  [][AppliedAgain => Settings(eng') = Settings(eng)]_vars

\* C14 (amended): the same for the energy, danceability and valence arms, in
\* every transport state; the tempo arm samples the BPM again, so a second
\* application leaves every other setting alone and stores a BPM of the same
\* arm's range in both the state and the transport register.
C14_IdempotentButTempo ==
  [][AppliedAgain =>
       /\ [Settings(eng') EXCEPT !.bpm = eng.bpm, !.transportBpm = eng.transportBpm]
            = Settings(eng)
       /\ IF eng'.applied.tempo = "null"
          THEN eng'.bpm = eng.bpm /\ eng'.transportBpm = eng.transportBpm
          ELSE /\ eng'.transportBpm = eng'.bpm
               /\ eng'.bpm >= 2 * TEMPO_RANGES[eng'.applied.tempo].min
               /\ eng'.bpm <= 2 * TEMPO_RANGES[eng'.applied.tempo].max]_vars

\* a GenerationParams value is in effect on a playing engine right after being
\* applied, with the BPM at the top of its arm's range (any application that
\* follows is a repeated one)
C14_Witness ==
  /\ eng.applied \in PParams
  /\ eng.currentParams = eng.applied
  /\ eng.isPlaying
  /\ eng.bpm = 2 * TEMPO_RANGES[eng.applied.tempo].max
  /\ eng.kickOff = (ENERGY_PARAMS[eng.applied.energy].instruments < 3)

\* C15: after applyTempo(arm) the stored BPM is the rounded double of a tempo
\* within the arm's range, so 2 * min <= bpm <= 2 * max, and the transport BPM
\* register equals the stored BPM.
C15_TempoWithinDoubledRange ==
  eng.applied.tempo # "null" =>
    /\ eng.bpm >= 2 * TEMPO_RANGES[eng.applied.tempo].min
    /\ eng.bpm <= 2 * TEMPO_RANGES[eng.applied.tempo].max
    /\ eng.transportBpm = eng.bpm

\* applyTempo alone has stored the upper end of the focus range
C15_Witness ==
  /\ eng.applied = [NoParams EXCEPT !.tempo = "focus"]
  /\ eng.bpm = 144
  /\ eng.transportBpm = 144

\* C16 (as claimed): every step that changes a field of the engine state
\* (isPlaying, isLoaded, key, progression, progressIndex, bpm, noiseType,
\* noiseVolume) hands every subscribed listener, within the step, a snapshot
\* equal to the state the step leaves, also before initialization.
C16_EveryChangeNotified ==
  [][getState(eng') # getState(eng) /\ eng.listeners # {} =>
       /\ Len(eng'.notified) > 0
       /\ eng'.notified[Len(eng'.notified)].to = eng.listeners
       /\ eng'.notified[Len(eng'.notified)].state = getState(eng')]_vars

\* C17: subscribe(listener) registers the listener; once the unsubscribe
\* function it returned has been called the listener is handed no further
\* snapshot, while every listener still subscribed is handed each one.
C17_UnsubscribedHearsNothing ==
  /\ eng.listeners = hist.subs
  /\ \A i \in 1..Len(eng.notified) :
       /\ eng.notified[i].to \cap hist.gone = {}
       /\ eng.notified[i].to = hist.subs

\* listener 1 has unsubscribed and a snapshot has gone to listener 2 alone
C17_Witness ==
  /\ hist.gone = {1}
  /\ hist.subs = {2}
  /\ Len(eng.notified) > 0
  /\ eng.notified[1].to = {2}

\* C18 (as claimed): once stop() or dispose() has returned, no callback the
\* engine scheduled before runs: the ramp-up timer of a transition does not
\* fire on a disposed engine, nor on a stopped one before it is played again.
C18_NoCallbackAfterStop ==
  "rampUp" \in eng.fired =>
    /\ ~eng.disposed
    /\ ~(hist.halt = "stop" /\ ~hist.resumed)

\* C19 (as claimed): initialize() completes and sets isLoaded even if a sample
\* fails to load: once the requests of all four samplers have settled, well or
\* not, the engine is loaded.
C19_LoadSurvivesFailures ==
  (\A s \in SampleIds : eng.samples[s] \in {"loaded", "failed"}) => eng.isLoaded

\* C20: when acquiring the audio output fails, play() rejects without starting
\* the transport, a sequence or the noise, without changing isPlaying and
\* without notifying; the store's play has then recorded an error message,
\* passed the rejection on, and left isLoading false.
C20_UnlockFailureSurfaces ==
  [][\A p \in PlayIds :
       store.calls[p] = "awaiting" /\ store'.calls[p] = "rejected" =>
         /\ eng'.transport = eng.transport
         /\ eng'.seqs = eng.seqs
         /\ eng'.noiseOn = eng.noiseOn
         /\ eng'.isPlaying = eng.isPlaying
         /\ eng'.notified = <<>>
         /\ store'.error # "null"
         /\ ~store'.isLoading]_vars

\* a play() through the store has been rejected on a loaded, silent engine
C20_Witness ==
  /\ store.calls[1] = "rejected"
  /\ store.error # "null"
  /\ ~store.isLoading
  /\ eng.isLoaded
  /\ ~eng.isPlaying
  /\ eng.transport = "stopped"
  /\ plays[1] = "idle"

\* the watched callback triggered nothing, notified nobody and left the three
\* positions where they were
NoEffect ==
  /\ eng.fired = {}
  /\ eng.notified = <<>>
  /\ eng.progressIndex = call.pre.progressIndex
  /\ eng.barCount = call.pre.barCount
  /\ eng.scalePos = call.pre.scalePos

OutsideScale(x, L) == x < 0 \/ x >= L

\* C21: a chord tick with an empty progression or without a piano, and a
\* melody tick without a piano or whose computed position falls outside the
\* scale, trigger no sound and leave progressIndex, barCount and scalePos
\* unchanged (the handlers return before anything is dereferenced).
C21_InvalidTicksAreNoOps ==
  /\ call.op = "chord" /\ (call.pre.progLen = 0 \/ ~call.pre.piano) => NoEffect
  /\ call.op = "melody" /\ ~call.pre.piano => NoEffect
  /\ call.op = "melody"
       /\ OutsideScale(melodyTarget(call.pre.scalePos, call.pre.scaleLen, call.m),
                       call.pre.scaleLen) => NoEffect

\* a chord callback has run on an engine holding a progression but no piano
C21_Witness ==
  /\ call.op = "chord"
  /\ call.pre.progLen = ProgressionLength
  /\ ~call.pre.piano
  /\ ~eng.isLoaded

\* a melody callback has passed the density gate and stepped below the scale
C21_WitnessMelody ==
  /\ call.op = "melody"
  /\ call.pre.piano
  /\ ~call.pre.melodyOff
  /\ call.m.gate <= call.pre.melodyDensity
  /\ call.pre.scaleLen > 0
  /\ melodyTarget(call.pre.scalePos, call.pre.scaleLen, call.m) = -1

\* C22: a kick, snare or hat tick that finds its voice's mute flag set issues
\* no trigger for that voice, whatever the template slot and the draw.
C22_MutedVoiceNeverFires ==
  /\ call.op = "kick" /\ call.pre.kickOff => "kick" \notin eng.fired
  /\ call.op = "snare" /\ call.pre.snareOff => "snare" \notin eng.fired
  /\ call.op = "hat" /\ call.pre.hatOff => "hat" \notin eng.fired

\* a kick tick on the ghost slot, with a draw under the ghost probability, has
\* found the kick muted
C22_Witness ==
  /\ call.op = "kick"
  /\ call.pre.kickOff
  /\ call.note = "."
  /\ call.r = 0
  /\ eng.isPlaying

\* the step is one of the three places where content is regenerated
RegenerationPoint ==
  \/ ChordTick(DFrame) /\ eng.barCount + 1 >= eng.sectionLength
  \/ Skip(DFrame)
  \/ Len(eng.progression) = 0 /\ \E p \in PlayIds : PlayResume(p, DFrame)

\* C23: key, scale and progression change only inside a regeneration, which
\* replaces the three together by freshly generated ones; a regeneration
\* happens only at a section-boundary chord tick, on skip(), or on play() when
\* no progression exists yet. Every other operation leaves them as they are.
C23_ContentChangesOnlyByRegeneration ==
  [][/\ ~eng'.regen =>
          /\ eng'.key = eng.key
          /\ eng'.scale = eng.scale
          /\ eng'.progression = eng.progression
     /\ eng'.regen =>
          /\ RegenerationPoint
          /\ \E i \in 1..Len(PROGRESSIONS) : eng'.progression = PROGRESSIONS[i]
          /\ eng'.scale = buildScale(eng'.key)]_vars

\* skip() in the middle of a section has just regenerated the content, in
\* another key and with the other progression
C23_Witness ==
  /\ eng.regen
  /\ eng.fired = {}
  /\ eng.isPlaying
  /\ eng.barCount > 0
  /\ eng.key = "F"
  /\ eng.progression = PROGRESSIONS[2]
  /\ eng.masterVolDb = -6021

\* the mute flags and the melody density are those the tick's draws give
Rerolled ==
  /\ eng.kickOff = (call.c.kick < 150)
  /\ eng.snareOff = (call.c.snare < 200)
  /\ eng.hatOff = (call.c.hat < 250)
  /\ eng.melodyDensity = (call.c.dens * 3) \div 10 + 200
  /\ eng.melodyOff = (call.c.mel < 250)

\* the mute flags and the melody density are those before the tick
Kept ==
  /\ eng.kickOff = call.pre.kickOff
  /\ eng.snareOff = call.pre.snareOff
  /\ eng.hatOff = call.pre.hatOff
  /\ eng.melodyDensity = call.pre.melodyDensity
  /\ eng.melodyOff = call.pre.melodyOff

\* C24 (as claimed): the per-cycle re-roll happens on exactly the chord ticks
\* whose advance wraps the progression index from length - 1 back to 0, and
\* on no other non-boundary chord tick.
C24_RerollOnWrap ==
  call.op = "chord" /\ ~eng.regen =>
    IF call.pre.progressIndex = call.pre.progLen - 1 THEN Rerolled ELSE Kept

\* C24 (amended): the per-cycle re-roll happens on exactly the chord ticks
\* that start at progression index 0 (the tick after a wrap, after a
\* regeneration or after stop()), and on no other non-boundary chord tick.
C24_RerollAtIndexZero ==
  call.op = "chord" /\ ~eng.regen =>
    IF call.pre.progressIndex = 0 THEN Rerolled ELSE Kept

\* the chord tick that follows a wrap (8 bars into the section, index 0) has
\* re-rolled the kick from audible to muted
C24_Witness ==
  /\ call.op = "chord"
  /\ ~eng.regen
  /\ call.pre.progressIndex = 0
  /\ call.pre.barCount = ProgressionLength
  /\ eng.progressIndex = 1
  /\ ~call.pre.kickOff
  /\ eng.kickOff

\* C25: the section length is one of 16, 20, 24, 28, 32, 48 in every reachable
\* state, the initial one included, and only a transition changes it: a step
\* that regenerates the content without touching the transport, either a
\* chord tick closing the section or (skip) a step that triggers nothing and
\* leaves the bar counter.
C25_SectionLengthFromCandidates ==
  /\ \E i \in 1..Len(lengths) : eng.sectionLength = lengths[i]
  /\ [][/\ \E i \in 1..Len(lengths) : eng'.sectionLength = lengths[i]
        /\ eng'.sectionLength # eng.sectionLength =>
             /\ eng'.regen
             /\ eng'.isPlaying = eng.isPlaying
             /\ eng'.transport = eng.transport
             /\ IF "chord" \in eng'.fired
                THEN eng.barCount + 1 >= eng.sectionLength /\ eng'.barCount = 0
                ELSE eng'.fired = {} /\ eng'.barCount = eng.barCount]_vars

\* a section of 48 bars, the longest candidate, is past its 40th bar
C25_Witness ==
  /\ eng.sectionLength = 48
  /\ eng.barCount > 40
  /\ "chord" \in eng.fired
  /\ eng.isPlaying

\* C26: in every reachable state the progression is empty with progressIndex
\* 0, or has exactly 8 chords with 0 <= progressIndex <= 7; a chord tick at
\* index 7 returns the index to 0.
C26_ProgressionShape ==
  /\ \/ Len(eng.progression) = 0 /\ eng.progressIndex = 0
     \/ /\ Len(eng.progression) = ProgressionLength
        /\ eng.progressIndex \in 0..(ProgressionLength - 1)
  /\ [][/\ \/ Len(eng'.progression) = 0 /\ eng'.progressIndex = 0
           \/ /\ Len(eng'.progression) = ProgressionLength
              /\ eng'.progressIndex \in 0..(ProgressionLength - 1)
        /\ "chord" \in eng'.fired /\ eng.progressIndex = ProgressionLength - 1 =>
             eng'.progressIndex = 0]_vars

\* a chord tick in the middle of a section has just played the chord at index
\* 7 and returned the index to 0
C26_Witness ==
  /\ "chord" \in eng.fired
  /\ ~eng.regen
  /\ eng.progressIndex = 0
  /\ eng.barCount = 2 * ProgressionLength
  /\ eng.sectionLength = 20

C28_SilentTickKeepsCursor ==
  call.op = "melody" =>
    /\ call.pre.melodyOff \/ call.m.gate > call.pre.melodyDensity =>
         /\ "melody" \notin eng.fired
         /\ eng.scalePos = call.pre.scalePos
    /\ eng.scalePos # call.pre.scalePos => "melody" \in eng.fired

\* a melody tick has found the voice muted, with draws that would otherwise
\* have passed the density gate and moved the cursor
C28_Witness ==
  /\ call.op = "melody"
  /\ call.pre.melodyOff
  /\ call.m.gate <= call.pre.melodyDensity
  /\ melodyTarget(call.pre.scalePos, call.pre.scaleLen, call.m) \in 0..(call.pre.scaleLen - 1)
  /\ melodyTarget(call.pre.scalePos, call.pre.scaleLen, call.m) # call.pre.scalePos
  /\ eng.isPlaying

\* the three drum callbacks run one after the other, each on a hit slot, each
\* with its own draw: the set of voices triggered
DrumsFired(e, rk, rs, rh) ==
  hatTick(snareTick(kickTick(e, "C4", rk), "C4", rs), "C4", rh).fired

\* the engine with the mute flags, the firing parameters and the triggers
\* already issued replaced
Varied(e, k, s, h, ke, ha, f) ==
  [e EXCEPT !.kickOff = k, !.snareOff = s, !.hatOff = h,
            !.kickEmphasis = ke, !.hihatActivity = ha, !.fired = f]

\* C29: whether the kick, the snare or the hat fires depends on that voice's
\* own mute flag, template slot, probability parameter and draw only: the
\* other voices' mute flags, parameters and outcomes do not change it, and
\* with all three unmuted and on a hit slot each of the 8 fire / no-fire
\* combinations is the outcome of some draws.
C29_VoicesIndependent ==
  LET e == Begin(eng)
      others == SUBSET {"kick", "snare", "hat"}
  IN eng.drums =>
       /\ \A k, s, h \in BOOLEAN, ke \in {500, 800}, ha \in {300, 700}, f \in others,
             r \in DVoices.hit :
            /\ \A note \in {"C4", "", "."} :
                 ("kick" \in kickTick(Varied(e, k, s, h, ke, ha, f \ {"kick"}), note, r).fired)
                   = ("kick" \in kickTick([e EXCEPT !.kickOff = k, !.kickEmphasis = ke],
                                          note, r).fired)
            /\ \A note \in {"", "C4"} :
                 ("snare" \in snareTick(Varied(e, k, s, h, ke, ha, f \ {"snare"}), note, r).fired)
                   = ("snare" \in snareTick([e EXCEPT !.snareOff = s], note, r).fired)
            /\ ("hat" \in hatTick(Varied(e, k, s, h, ke, ha, f \ {"hat"}), "C4", r).fired)
                 = ("hat" \in hatTick([e EXCEPT !.hatOff = h, !.hihatActivity = ha],
                                      "C4", r).fired)
       /\ ~eng.kickOff /\ ~eng.snareOff /\ ~eng.hatOff =>
            \A S \in others :
              \E rk, rs, rh \in DVoices.hit : DrumsFired(e, rk, rs, rh) = S

\* a hat tick has fired while the kick and the snare were muted
C29_Witness ==
  /\ call.op = "hat"
  /\ call.pre.kickOff
  /\ call.pre.snareOff
  /\ "hat" \in eng.fired
  /\ eng.isPlaying


\* C30: in every reachable state 0 <= barCount < sectionLength, after any
\* sequence of chord ticks, skip(), stop(), pause(), play() and parameter
\* applications.
C30_BarCountBelowSectionLength ==
  /\ eng.barCount >= 0
  /\ eng.barCount < eng.sectionLength

\* C31 (as claimed): when pause() or stop() is invoked while a play() is still
\* awaiting the load or the audio unlock, then once every pending play() has
\* settled the engine is not left playing: isPlaying is false and the
\* transport is not started while the last command was pause() or stop().
C31_LastCommandWins ==
  (hist.halt # "none" /\ \A p \in PlayIds : plays[p] = "idle") =>
    ~(eng.isPlaying /\ eng.transport = "started")

\* C32 (as claimed): an initialize() issued after dispose() runs a fresh load
\* sequence (_initialize once more, on new nodes) and is not reported done
\* before that load has finished; play() never starts disposed sequences.
C32_FreshLoadAfterDispose ==
  [][/\ \A c \in CallerIds :
          eng.disposed /\ callers[c] = "idle" /\ callers'[c] # "idle" =>
            /\ eng'.loadRuns = eng.loadRuns + 1
            /\ ~eng'.disposed
            /\ callers'[c] = "waiting"
     /\ eng'.isPlaying => ~eng'.disposed]_vars

\* C33 (as claimed): when generateNewSong() has applied an energy arm and
\* forced the transition, the melody density and the kick / snare eligibility
\* the next melody or drum tick reads are the ones that arm prescribes.
C33_NewSongKeepsEnergyArm ==
  (eng.applied.energy # "null" /\ eng.regen) =>
    LET params == ENERGY_PARAMS[eng.applied.energy]
    IN /\ eng.melodyDensity = params.density
       /\ eng.kickOff = (params.instruments < 3)
       /\ eng.snareOff = (params.instruments < 4)

\* C34: in every reachable state, isPlaying implies isLoaded and a non-empty
\* progression; isLoaded, once true, is true in every later state (dispose()
\* included).
C34_PlayingImpliesLoaded ==
  /\ eng.isPlaying => eng.isLoaded /\ Len(eng.progression) > 0
  /\ [][/\ eng'.isPlaying => eng'.isLoaded /\ Len(eng'.progression) > 0
        /\ eng.isLoaded => eng'.isLoaded]_vars

\* the engine plays after a dispose(): still loaded, with its progression
C34_Witness ==
  /\ eng.isPlaying
  /\ eng.isLoaded
  /\ eng.disposed
  /\ Len(eng.progression) = ProgressionLength
  /\ eng.transport = "started"

\* C36 (as claimed): in every state after applyGenerationParams the transport
\* swing is the swing of the danceability arm applied last, also when the
\* engine is initialized after the parameters were applied.
C36_SwingFollowsArm ==
  eng.currentParams # NoParams =>
    eng.swing = DANCEABILITY_PARAMS[eng.currentParams.danceability].swing

\* the arms whose configured range meets [bpmMin, bpmMax], in ascending order
Intersecting(bpmMin, bpmMax) ==
  SelectSeq(TempoArmNames,
            LAMBDA arm : TempoArmRange(arm).min <= bpmMax /\ TempoArmRange(arm).max >= bpmMin)

\* C39: getAllowedTempoArms returns a non-empty list for any two integers, and
\* for 60 <= bpmMin <= bpmMax <= 100 exactly the arms whose configured range
\* intersects [bpmMin, bpmMax], in ascending tempo order.
C39_AllowedArms ==
  /\ Len(settings.arms) > 0
  /\ (60 <= settings.asked.bpmMin /\ settings.asked.bpmMin <= settings.asked.bpmMax
        /\ settings.asked.bpmMax <= 100) =>
       settings.arms = Intersecting(settings.asked.bpmMin, settings.asked.bpmMax)
  /\ 60 <= settings.bpmMin /\ settings.bpmMin <= settings.bpmMax /\ settings.bpmMax <= 100

\* the range 72..78 touches three arms at their ends
C39_Witness ==
  /\ settings.asked = [bpmMin |-> 72, bpmMax |-> 78]
  /\ settings.arms = <<"focus", "60-70", "70-80">>

\* C35 (as claimed): the AudioEngine wrapper holds at most one subscription on
\* the generative engine in every reachable state, so that each notification
\* of the generative engine runs exactly one closure of the wrapper.
C35_OneSubscription ==
  /\ audioEngine.subs <= 1
  /\ \A i \in 1..Len(eng.notified) :
       Cardinality(eng.notified[i].to \cap WrapperListeners) = 1

C37_NoiseFollowsSetting ==
  eng.isPlaying =>
    /\ eng.noiseType = settings.noiseType
    /\ settings.noiseType = "off" => ~eng.noiseOn

====
